---- MODULE Spec2Model ----
(***************************************************************************)
(* A model of the quantomate core engine: the TradePosition state machine, *)
(* Strategy.apply, the Dataset batch (prepare) and streaming (add) paths,  *)
(* Indicator.spread, the Backtest loop and the BacktestReport ledger.      *)
(*                                                                         *)
(* Numbers are exact rationals <<n, d>> in lowest terms with d > 0, so the *)
(* arithmetic of the code is followed without rounding; NaN is <<0, 0>>    *)
(* and the JavaScript value undefined is <<0, -1>>.                        *)
(***************************************************************************)
EXTENDS Integers, Sequences, FiniteSets, TLC

VARIABLES
    posOld,     \* SpecPosition: the position TradePosition.update starts from
    posNew,     \* SpecPosition: the decision handed to TradePosition.update
    posOut,     \* SpecPosition: what TradePosition.update returned
    posCalls,   \* SpecPosition: number of update calls made (0 or 1)
    stCfg,      \* SpecStrategy: the strategy's options
    stQuote,    \* SpecStrategy: the quote handed to Strategy.apply
    stPrev,     \* SpecStrategy: the previous position handed to Strategy.apply
    stOut,      \* SpecStrategy: the position Strategy.apply returned
    stCalls,    \* SpecStrategy: number of apply calls made (0 or 1)
    stObs,      \* SpecStrategy: the onTrigger observer of the strategy
    stSeen,     \* SpecStrategy: the observer's calls and the quote it left
    report,     \* the BacktestReport ledger (SpecLedger and Spec)
    lastOp,     \* the last ledger operation, with the ledger fields it started from
    returned,   \* Spec: the report the previous Backtest.run call returned
    cfg,        \* Spec: the strategy driven through the datasets
    stream,     \* Spec: the dataset fed one row at a time by Dataset.add
    batch,      \* Spec: the dataset built from the same rows and prepared at once
    phase,      \* Spec: "new" | "stream" | "prepared" | "running" | "done"
    runI,       \* Spec: index of the next row Backtest.run will process
    store,      \* SpecStorage: a ColumnarStorage
    storeOp,    \* SpecStorage: the last call made on it, with the storage before
    written,    \* SpecStorage: the indicator and position cells that were set
    indDs,      \* SpecIndicators: the dataset an indicator is calculated on
    indParams,  \* SpecIndicators: the indicator's params
    indOut,     \* SpecIndicators: the indicators calculated and their values
    inst        \* SpecInstances: two datasets, each with its strategy and ledger

vars == <<posOld, posNew, posOut, posCalls, stCfg, stQuote, stPrev, stOut,
          stCalls, stObs, stSeen, report, lastOp, returned, cfg, stream,
          batch, phase, runI, store, storeOp, written, indDs, indParams, indOut,
          inst>>

----------------------------------------------------------------------------
(* Bounds of the model *)

\* rows a dataset receives at most
MaxRows == 4
\* GoldenCrossStrategy's fastPeriod and slowPeriod, scaled down to the rows
FastPeriod == 2
SlowPeriod == 3
\* ledger operations SpecLedger performs at most
MaxOps == 4
\* initial capacity of a ColumnarStorage (1000 in the code)
InitialCapacity == 2
\* rows SpecStorage appends at most
MaxStoreRows == 3
\* the period of the oscillators (14 and 20 by default in the code)
OscillatorPeriod == 2
\* the most rows of the datasets the oscillators are calculated on
MaxBars == 3

----------------------------------------------------------------------------
(* Numbers *)

NaN == <<0, 0>>
Undef == <<0, -1>>

Abs(n) == IF n < 0 THEN -n ELSE n

RECURSIVE Gcd(_, _)
Gcd(a, b) == IF b = 0 THEN a ELSE Gcd(b, a % b)

\* the rational n/d in lowest terms; d = 0 gives NaN
Rat(n, d) ==
    IF d = 0 THEN NaN
    ELSE LET g == Gcd(Abs(n), Abs(d))
             s == IF d < 0 THEN -1 ELSE 1
         IN  <<(s * n) \div g, (s * d) \div g>>

Num(n) == <<n, 1>>
IsNaN(x) == x = NaN
IsNum(x) == x[2] > 0

RAdd(x, y) == IF ~IsNum(x) \/ ~IsNum(y) THEN NaN
              ELSE Rat(x[1] * y[2] + y[1] * x[2], x[2] * y[2])
RSub(x, y) == IF ~IsNum(x) \/ ~IsNum(y) THEN NaN
              ELSE Rat(x[1] * y[2] - y[1] * x[2], x[2] * y[2])
RMul(x, y) == IF ~IsNum(x) \/ ~IsNum(y) THEN NaN
              ELSE Rat(x[1] * y[1], x[2] * y[2])
RDiv(x, y) == IF ~IsNum(x) \/ ~IsNum(y) THEN NaN
              ELSE Rat(x[1] * y[2], x[2] * y[1])
\* comparisons with NaN or undefined are false, as in JavaScript
RLt(x, y) == IsNum(x) /\ IsNum(y) /\ x[1] * y[2] < y[1] * x[2]
RGt(x, y) == RLt(y, x)
RLe(x, y) == IsNum(x) /\ IsNum(y) /\ x[1] * y[2] <= y[1] * x[2]
RGe(x, y) == RLe(y, x)

----------------------------------------------------------------------------
(* TradePosition *)

Kinds == {"idle", "entry", "exit", "hold"}

\* the table with exit as a resting state that a new entry signal does not leave
newTradingPositionMap_ExitRests ==
    [current \in Kinds |->
        CASE current = "idle"  -> [idle |-> "idle", entry |-> "entry",
                                   exit |-> "idle", hold |-> "idle"]
          [] current = "entry" -> [idle |-> "hold", entry |-> "hold",
                                   exit |-> "exit", hold |-> "hold"]
          [] current = "exit"  -> [idle |-> "idle", entry |-> "idle",
                                   exit |-> "idle", hold |-> "idle"]
          [] current = "hold"  -> [idle |-> "hold", entry |-> "hold",
                                   exit |-> "exit", hold |-> "hold"]]

\* the table with hold, seen from an entry, read as the signal to close
newTradingPositionMap_HoldCloses ==
    [current \in Kinds |->
        CASE current = "idle"  -> [idle |-> "idle", entry |-> "entry",
                                   exit |-> "idle", hold |-> "idle"]
          [] current = "entry" -> [idle |-> "hold", entry |-> "hold",
                                   exit |-> "exit", hold |-> "exit"]
          [] current = "exit"  -> [idle |-> "idle", entry |-> "entry",
                                   exit |-> "idle", hold |-> "idle"]
          [] current = "hold"  -> [idle |-> "hold", entry |-> "hold",
                                   exit |-> "exit", hold |-> "hold"]]

\* the transition table: newTradingPositionMap[current][decision]
newTradingPositionMap ==
    [current \in Kinds |->
        CASE current = "idle"  -> [idle |-> "idle", entry |-> "entry",
                                   exit |-> "idle", hold |-> "idle"]
          [] current = "entry" -> [idle |-> "hold", entry |-> "hold",
                                   exit |-> "exit", hold |-> "hold"]
          [] current = "exit"  -> [idle |-> "idle", entry |-> "entry",
                                   exit |-> "idle", hold |-> "idle"]
          [] current = "hold"  -> [idle |-> "hold", entry |-> "hold",
                                   exit |-> "exit", hold |-> "hold"]]

\* no options object: spreading undefined adds no key
NoOptions == <<>>

\* new TradePosition(value, options)
TradePosition(value, options) == [value |-> value, options |-> options]

\* { ...a, ...b }: every key of a and b, b's value where both define the key
ObjSpread(a, b) ==
    [k \in (DOMAIN a) \cup (DOMAIN b) |-> IF k \in DOMAIN b THEN b[k] ELSE a[k]]

\* position.options?.key
Opt(position, key) ==
    IF key \in DOMAIN position.options THEN position.options[key] ELSE "undefined"

\* update with the spreads in the other order: the old metadata overrides
Update_OldOverrides(oldPosition, newPosition) ==
    TradePosition(newTradingPositionMap[oldPosition.value][newPosition.value],
                  ObjSpread(newPosition.options, oldPosition.options))

\* TradePosition.update(oldPosition, newPosition)
Update(oldPosition, newPosition) ==
    TradePosition(newTradingPositionMap[oldPosition.value][newPosition.value],
                  ObjSpread(oldPosition.options, newPosition.options))

----------------------------------------------------------------------------
(* Quote: a row's raw value with its indicator values and its position *)

\* new Quote(value)
Quote(value) == [value |-> value, indicators |-> <<>>, strategy |-> <<>>]

\* quote.getIndicator(name): undefined for a name the quote does not carry
GetIndicator(quote, name) ==
    IF name \in DOMAIN quote.indicators THEN quote.indicators[name] ELSE Undef

\* quote.setIndicator(name, value)
QuoteSetIndicator(quote, name, value) ==
    [quote EXCEPT !.indicators = ObjSpread(quote.indicators, [n \in {name} |-> value])]

\* the number a record row holds under its field name (open or close)
FieldNumber(value) == <<value[1], value[2]>>

\* !!x for a number x: false for undefined, NaN and 0
Truthy(x) == IsNum(x) /\ x[1] # 0

----------------------------------------------------------------------------
(* Strategy *)

\* the raw value n read as four independent predicate outcomes
Bit(quote, k) == IsNum(quote.value) /\ (quote.value[1] \div k) % 2 = 1

\* GoldenCrossStrategy's and the sma2 strategy's entryWhen (the sma2 strategy
\* compares its moving average with a fixed level, here 2 on rows of 1..3);
\* for kind "bits" a predicate that returns bit 1 of the raw value, for kind
\* "field" one that compares the number of a record row with 2, for kind
\* "throws" one that compares the raw value with 2 and throws on a row of 3
EntryWhen(c, quote) ==
    CASE c.kind = "bits" -> Bit(quote, 1)
      [] c.kind = "field" -> RGe(FieldNumber(quote.value), Num(2))
      [] c.kind = "throws" -> RGe(quote.value, Num(2))
      [] c.kind = "sma2" ->
            LET sma2 == GetIndicator(quote, "sma2")
            IN  Truthy(sma2) /\ RGt(sma2, Num(2))
      [] c.kind = "golden" ->
            LET fastEMAValue == GetIndicator(quote, "fastEMA")
                slowSMAValue == GetIndicator(quote, "slowSMA")
                prevFastEMA == GetIndicator(quote, "prevFastEMA")
                prevSlowSMA == GetIndicator(quote, "prevSlowSMA")
            IN  IF \/ fastEMAValue = Undef \/ slowSMAValue = Undef
                   \/ prevFastEMA = Undef \/ prevSlowSMA = Undef
                   \/ IsNaN(prevFastEMA) \/ IsNaN(prevSlowSMA)
                THEN FALSE
                ELSE RLe(prevFastEMA, prevSlowSMA) /\ RGt(fastEMAValue, slowSMAValue)

\* the matching exitWhen; for kind "bits" bit 2 of the raw value
ExitWhen(c, quote) ==
    CASE c.kind = "bits" -> Bit(quote, 2)
      [] c.kind = "field" -> RLe(FieldNumber(quote.value), Num(1))
      [] c.kind = "throws" -> RLe(quote.value, Num(1))
      [] c.kind = "sma2" ->
            LET sma2 == GetIndicator(quote, "sma2")
            IN  Truthy(sma2) /\ RLt(sma2, Num(2))
      [] c.kind = "golden" ->
            LET fastEMAValue == GetIndicator(quote, "fastEMA")
                slowSMAValue == GetIndicator(quote, "slowSMA")
                prevFastEMA == GetIndicator(quote, "prevFastEMA")
                prevSlowSMA == GetIndicator(quote, "prevSlowSMA")
            IN  IF \/ fastEMAValue = Undef \/ slowSMAValue = Undef
                   \/ prevFastEMA = Undef \/ prevSlowSMA = Undef
                   \/ IsNaN(prevFastEMA) \/ IsNaN(prevSlowSMA)
                THEN FALSE
                ELSE RGe(prevFastEMA, prevSlowSMA) /\ RLt(fastEMAValue, slowSMAValue)

\* stopLossWhen(quote, position), when configured: bit 4 of the raw value for
\* kind "bits", otherwise a price floor of 1
StopLossWhen(c, quote, position) ==
    IF c.kind = "bits" THEN Bit(quote, 4) ELSE RLe(quote.value, Num(1))

\* takeProfitWhen(quote, position), when configured: bit 8 of the raw value
\* for kind "bits", otherwise a price ceiling of 3
TakeProfitWhen(c, quote, position) ==
    IF c.kind = "bits" THEN Bit(quote, 8) ELSE RGe(quote.value, Num(3))

\* entryShortWhen / exitShortWhen of a strategy configured with the short
\* pair: bits 16 and 32 of the raw value
EntryShortWhen(c, quote) == Bit(quote, 16)
ExitShortWhen(c, quote) == Bit(quote, 32)

\* isShortPosition(position, options)
isShortPosition(position) ==
    "short" \in DOMAIN position.options /\ position.options["short"] = TRUE

IsOpen(position) == position.value = "hold" \/ position.value = "entry"

\* steps 1 and 2 without the stop-loss check
RiskExit_TakeProfitOnly(c, quote, position) ==
    IF IsOpen(position) /\ c.takeProfit /\ TakeProfitWhen(c, quote, position)
    THEN "take-profit"
    ELSE "none"

\* steps 1 and 2 in the other order: take-profit checked before stop-loss
RiskExit_TakeProfitFirst(c, quote, position) ==
    IF IsOpen(position) /\ c.takeProfit /\ TakeProfitWhen(c, quote, position)
    THEN "take-profit"
    ELSE IF IsOpen(position) /\ c.stopLoss /\ StopLossWhen(c, quote, position)
    THEN "stop-loss"
    ELSE "none"

\* steps 1 and 2 of Strategy.apply: the risk exit that returns early, or "none"
RiskExit(c, quote, position) ==
    IF IsOpen(position) /\ c.stopLoss /\ StopLossWhen(c, quote, position)
    THEN "stop-loss"
    ELSE IF IsOpen(position) /\ c.takeProfit /\ TakeProfitWhen(c, quote, position)
    THEN "take-profit"
    ELSE "none"

\* the predicate pair step 3 selects is the pair the strategy was not given:
\* calling it raises a TypeError
PairMissing(c, position) ==
    IF isShortPosition(position) THEN ~c.hasShort ELSE ~c.hasLong

\* entryWhen is a predicate that throws on this quote
EntryWhenThrows(c, quote) == c.kind = "throws" /\ quote.value = Num(3)

\* step 3 of Strategy.apply calls entryFn(quote) and the predicate throws
PredicateThrows(c, quote, position) ==
    /\ ~isShortPosition(position)
    /\ ~(IsOpen(position) /\ ExitWhen(c, quote))
    /\ EntryWhenThrows(c, quote)

\* step 3 of Strategy.apply: newPositionValue
Decision(c, quote, position) ==
    LET exitFn == IF isShortPosition(position) THEN ExitShortWhen(c, quote)
                  ELSE ExitWhen(c, quote)
        entryFn == IF isShortPosition(position) THEN EntryShortWhen(c, quote)
                   ELSE EntryWhen(c, quote)
    IN  IF IsOpen(position) /\ exitFn THEN "exit"
        ELSE IF entryFn THEN "entry"
        ELSE "idle"

\* what a call that raised leaves in place of a position
Threw == TradePosition("threw", NoOptions)

\* apply whose step 3 writes exitReason only when it decides an exit
Apply_KeepsExitReason(c, quote, position) ==
    LET risk == RiskExit(c, quote, position)
    IN  IF risk # "none"
        THEN TradePosition("exit",
                 ObjSpread(position.options, [exitReason |-> risk]))
        ELSE IF PairMissing(c, position) THEN Threw
        ELSE IF PredicateThrows(c, quote, position) THEN Threw
        ELSE LET newPositionValue == Decision(c, quote, position)
             IN  Update(position,
                     TradePosition(newPositionValue,
                         IF newPositionValue = "exit"
                         THEN ObjSpread(position.options, [exitReason |-> "strategy"])
                         ELSE position.options))

\* Strategy.apply(quote, position).position
Apply(c, quote, position) ==
    LET risk == RiskExit(c, quote, position)
    IN  IF risk # "none"
        THEN TradePosition("exit",
                 ObjSpread(position.options, [exitReason |-> risk]))
        ELSE IF PairMissing(c, position) THEN Threw
        ELSE IF PredicateThrows(c, quote, position) THEN Threw
        ELSE LET newPositionValue == Decision(c, quote, position)
             IN  Update(position,
                     TradePosition(newPositionValue,
                         ObjSpread(position.options,
                             [exitReason |->
                                 IF newPositionValue = "exit" THEN "strategy"
                                 ELSE "undefined"])))

\* the onTrigger observers: none configured, one that records its arguments,
\* one that also overwrites the quote it is handed
Observers == {"none", "log", "mutate"}

\* the quote as the observer leaves it
Observe(obs, quote) ==
    IF obs = "mutate" THEN [quote EXCEPT !.value = RSub(Num(63), @)] ELSE quote

\* the calls the observer has received: none
NotSeen(quote) == [calls |-> <<>>, quote |-> quote]

\* this._options.onTrigger?.(positionType, quote)
OnTrigger(obs, positionType, quote) ==
    IF obs = "none" THEN NotSeen(quote)
    ELSE [calls |-> <<[positionType |-> positionType, quote |-> quote]>>,
          quote |-> Observe(obs, quote)]

\* apply calling the observer before it decides, on the quote the observer left
ApplyObserved_TriggerFirst(c, obs, quote, position) ==
    LET seen == OnTrigger(obs, position.value, quote)
    IN  [position |-> Apply(c, seen.quote, position),
         calls |-> seen.calls, quote |-> seen.quote]

\* Strategy.apply(quote, position) of a strategy with the observer obs: the
\* position returned, the observer's calls and the quote as it is afterwards
ApplyObserved(c, obs, quote, position) ==
    LET risk == RiskExit(c, quote, position)
    IN  IF risk # "none"
        THEN [position |-> TradePosition("exit",
                  ObjSpread(position.options, [exitReason |-> risk])),
              calls |-> <<>>, quote |-> quote]
        ELSE IF PairMissing(c, position) \/ PredicateThrows(c, quote, position)
        THEN [position |-> Threw, calls |-> <<>>, quote |-> quote]
        ELSE LET newPositionValue == Decision(c, quote, position)
                 updatedPosition ==
                     Update(position,
                         TradePosition(newPositionValue,
                             ObjSpread(position.options,
                                 [exitReason |->
                                     IF newPositionValue = "exit" THEN "strategy"
                                     ELSE "undefined"])))
                 seen == OnTrigger(obs, updatedPosition.value, quote)
             IN  [position |-> updatedPosition,
                  calls |-> seen.calls, quote |-> seen.quote]

----------------------------------------------------------------------------
(* BacktestReport: the ledger *)

\* quote.getStrategy(strategyName).position
QuotePosition(quote) == quote.strategy.position

\* quote.setStrategy(strategyName, new StrategyValue(position))
QuoteSetStrategy(quote, position) ==
    [quote EXCEPT !.strategy = [position |-> position]]

\* new BacktestReport(initialCapital)
NewReport(initialCapital) ==
    [profit |-> Num(0), loss |-> Num(0), numberOfTrades |-> 0,
     numberOfLosingTrades |-> 0, numberOfWinningTrades |-> 0,
     initialCapital |-> initialCapital, finalCapital |-> initialCapital,
     returns |-> Num(0), returnsPercentage |-> Num(0), winningRate |-> Num(0),
     trades |-> <<>>, currentCapital |-> initialCapital, sharesOwned |-> Num(0),
     stopLossExits |-> 0, takeProfitExits |-> 0, strategyExits |-> 0]

\* updateTotals measuring the returns from currentCapital
UpdateTotals_FromCurrentCapital(r) ==
    [r EXCEPT
        !.returns = RSub(r.finalCapital, r.currentCapital),
        !.returnsPercentage =
            RDiv(RMul(RSub(r.finalCapital, r.currentCapital), Num(100)),
                 r.initialCapital),
        !.numberOfTrades = r.numberOfTrades + 1]

\* BacktestReport.updateTotals()
UpdateTotals(r) ==
    [r EXCEPT
        !.returns = RSub(r.finalCapital, r.initialCapital),
        !.returnsPercentage =
            RDiv(RMul(RSub(r.finalCapital, r.initialCapital), Num(100)),
                 r.initialCapital),
        !.numberOfTrades = r.numberOfTrades + 1]

\* markEntry sizing the position from currentCapital
MarkEntry_FromCurrentCapital(r, tradedValue, quote) ==
    LET shares == RDiv(r.currentCapital, tradedValue)
    IN  [r EXCEPT
            !.sharesOwned = shares,
            !.finalCapital = Num(0),
            !.trades = Append(r.trades,
                [type |-> "entry", quote |-> quote, tradedValue |-> tradedValue,
                 shares |-> shares, currentCapital |-> Num(0)])]

\* markEntry ending with updateTotals, which counts the entry as a trade
MarkEntry_UpdatesTotals(r, tradedValue, quote) ==
    LET shares == RDiv(r.finalCapital, tradedValue)
    IN  UpdateTotals(
          [r EXCEPT
            !.sharesOwned = shares,
            !.finalCapital = Num(0),
            !.trades = Append(r.trades,
                [type |-> "entry", quote |-> quote, tradedValue |-> tradedValue,
                 shares |-> shares, currentCapital |-> Num(0)])])

\* BacktestReport.markEntry(tradedValue, quote)
MarkEntry(r, tradedValue, quote) ==
    LET shares == RDiv(r.finalCapital, tradedValue)
    IN  [r EXCEPT
            !.sharesOwned = shares,
            !.finalCapital = Num(0),
            !.trades = Append(r.trades,
                [type |-> "entry", quote |-> quote, tradedValue |-> tradedValue,
                 shares |-> shares, currentCapital |-> Num(0)])]

\* BacktestReport.buildExitContext(quote, position, exitPrice); <<>> stands for
\* the undefined it returns when the position carries no entry price or date
BuildExitContext(quote, position, exitPrice) ==
    IF \/ "entryPrice" \notin DOMAIN position.options
       \/ ~Truthy(position.options["entryPrice"])
       \/ "entryDate" \notin DOMAIN position.options
    THEN <<>>
    ELSE LET entryPrice == position.options["entryPrice"]
             priceChange == RSub(exitPrice, entryPrice)
         IN  [entryPrice |-> entryPrice, exitPrice |-> exitPrice,
              priceChange |-> priceChange,
              priceChangePercent |->
                  RMul(RDiv(priceChange, entryPrice), Num(100))]

\* markExit with its comparison and its capital and share updates as
\* parameters: hasWon(proceeds, currentCapital), the new finalCapital and
\* the new sharesOwned
MarkExitWith(r, tradedValue, quote, Won(_, _), Capital(_, _), Shares(_)) ==
    LET position == QuotePosition(quote)
        exitReason == Opt(position, "exitReason")
        exitContext == BuildExitContext(quote, position, tradedValue)
        proceeds == Capital(r.finalCapital, RMul(r.sharesOwned, tradedValue))
        hasWon == Won(proceeds, r.currentCapital)
        wins == r.numberOfWinningTrades + (IF hasWon THEN 1 ELSE 0)
        losses == r.numberOfLosingTrades + (IF hasWon THEN 0 ELSE 1)
    IN  UpdateTotals(
          [r EXCEPT
            !.stopLossExits = @ + (IF exitReason = "stop-loss" THEN 1 ELSE 0),
            !.takeProfitExits = @ + (IF exitReason = "take-profit" THEN 1 ELSE 0),
            !.strategyExits = @ + (IF exitReason = "strategy" THEN 1 ELSE 0),
            !.finalCapital = proceeds,
            !.trades = Append(r.trades,
                [type |-> "exit", quote |-> quote, tradedValue |-> tradedValue,
                 shares |-> r.sharesOwned, currentCapital |-> proceeds,
                 exitReason |-> exitReason, exitContext |-> exitContext]),
            !.profit = IF hasWon THEN RAdd(r.profit, RSub(proceeds, r.currentCapital))
                       ELSE r.profit,
            !.loss = IF hasWon THEN r.loss
                     ELSE RAdd(r.loss, RSub(r.currentCapital, proceeds)),
            !.numberOfWinningTrades = wins,
            !.numberOfLosingTrades = losses,
            !.winningRate = RDiv(Num(wins), Num(wins + losses)),
            !.sharesOwned = Shares(r.sharesOwned),
            !.currentCapital = proceeds])

\* markExit booking a fall of the capital as a win
MarkExit_LossWins(r, tradedValue, quote) ==
    LET Won(a, b) == RLt(a, b)
        Capital(old, proceeds) == proceeds
        Shares(old) == Num(0)
    IN  MarkExitWith(r, tradedValue, quote, Won, Capital, Shares)

\* markExit adding the proceeds to finalCapital instead of replacing it
MarkExit_AddsProceeds(r, tradedValue, quote) ==
    LET Won(a, b) == RGt(a, b)
        Capital(old, proceeds) == RAdd(old, proceeds)
        Shares(old) == Num(0)
    IN  MarkExitWith(r, tradedValue, quote, Won, Capital, Shares)

\* markExit counting a trade that only recovers its capital as a win
MarkExit_TieWins(r, tradedValue, quote) ==
    LET Won(a, b) == RGe(a, b)
        Capital(old, proceeds) == proceeds
        Shares(old) == Num(0)
    IN  MarkExitWith(r, tradedValue, quote, Won, Capital, Shares)

\* markExit without the reset of sharesOwned
MarkExit_KeepsShares(r, tradedValue, quote) ==
    LET Won(a, b) == RGt(a, b)
        Capital(old, proceeds) == proceeds
        Shares(old) == old
    IN  MarkExitWith(r, tradedValue, quote, Won, Capital, Shares)

\* BacktestReport.markExit(tradedValue, quote, strategyName)
MarkExit(r, tradedValue, quote) ==
    LET position == QuotePosition(quote)
        exitReason == Opt(position, "exitReason")
        exitContext == BuildExitContext(quote, position, tradedValue)
        proceeds == RMul(r.sharesOwned, tradedValue)
        hasWon == RGt(proceeds, r.currentCapital)
        wins == r.numberOfWinningTrades + (IF hasWon THEN 1 ELSE 0)
        losses == r.numberOfLosingTrades + (IF hasWon THEN 0 ELSE 1)
    IN  UpdateTotals(
          [r EXCEPT
            !.stopLossExits = @ + (IF exitReason = "stop-loss" THEN 1 ELSE 0),
            !.takeProfitExits = @ + (IF exitReason = "take-profit" THEN 1 ELSE 0),
            !.strategyExits = @ + (IF exitReason = "strategy" THEN 1 ELSE 0),
            !.finalCapital = proceeds,
            !.trades = Append(r.trades,
                [type |-> "exit", quote |-> quote, tradedValue |-> tradedValue,
                 shares |-> r.sharesOwned, currentCapital |-> proceeds,
                 exitReason |-> exitReason, exitContext |-> exitContext]),
            !.profit = IF hasWon THEN RAdd(r.profit, RSub(proceeds, r.currentCapital))
                       ELSE r.profit,
            !.loss = IF hasWon THEN r.loss
                     ELSE RAdd(r.loss, RSub(r.currentCapital, proceeds)),
            !.numberOfWinningTrades = wins,
            !.numberOfLosingTrades = losses,
            !.winningRate = RDiv(Num(wins), Num(wins + losses)),
            !.sharesOwned = Num(0),
            !.currentCapital = proceeds])

----------------------------------------------------------------------------
(* ColumnarStorage and Dataset.  Rows are numbers; positions (index) follow *)
(* the code: 0 is the first row, -1 the last.                               *)

\* the undefined a position column holds where nothing was stored
NoStrategy == <<>>

\* a raw value is a number or an object with a close attribute
ObjectValue(close) == <<close[1], close[2], "close">>

\* an object with an open attribute and no close
OpenValue(open) == <<open[1], open[2], "open">>

\* typeof value === 'number'
IsNumber(value) == Len(value) = 2 /\ value # Undef

\* a Float64Array cell read: undefined outside the array
TypedGet(array, i) == IF i >= 0 /\ i < Len(array) THEN array[i + 1] ELSE Undef

\* what a Float64Array keeps of a value written to it
ToFloat(value) == IF IsNumber(value) THEN value ELSE NaN

\* a Float64Array cell write: ignored outside the array
TypedSet(array, i, value) ==
    IF i >= 0 /\ i < Len(array) THEN [array EXCEPT ![i + 1] = ToFloat(value)]
    ELSE array

\* a JavaScript array cell read and write, the array being the function from
\* the indices that were written
ArrayGet(array, i) == IF i \in DOMAIN array THEN array[i] ELSE Undef
ArraySet(array, i, value) ==
    [k \in (DOMAIN array) \cup {i} |-> IF k = i THEN value ELSE array[k]]

\* new Dataset(): a ColumnarStorage of the initial capacity (numericValues,
\* objectValues, isNumeric, cols for its indicators map, strategyCols for its
\* strategies map, capacity, length) with the registration lists _indicators
\* and _strategies
EmptyDataset ==
    [capacity |-> InitialCapacity, length |-> 0,
     numericValues |-> [i \in 1..InitialCapacity |-> Num(0)],
     objectValues |-> <<>>, isNumeric |-> TRUE,
     cols |-> <<>>, strategyCols |-> <<>>,
     indicators |-> <<>>, strategies |-> <<>>]

Length(ds) == ds.length

\* actualIndex = index < 0 ? length + index : index
ActualIndex(ds, index) == IF index < 0 THEN Length(ds) + index ELSE index

InRange(ds, i) == i >= 0 /\ i < Length(ds)

\* resize that allocates the larger arrays without copying the old cells
Resize_DropsCells(ds) ==
    LET newCapacity == ds.capacity * 2
    IN  [ds EXCEPT
            !.numericValues = [i \in 1..newCapacity |-> Num(0)],
            !.cols = [n \in DOMAIN ds.cols |-> [i \in 1..newCapacity |-> NaN]],
            !.capacity = newCapacity]

\* ColumnarStorage.resize()
Resize(ds) ==
    LET newCapacity == ds.capacity * 2
        Grown(column, fill) ==
            [i \in 1..newCapacity |-> IF i <= Len(column) THEN column[i] ELSE fill]
    IN  [ds EXCEPT
            !.numericValues = Grown(ds.numericValues, Num(0)),
            !.cols = [n \in DOMAIN ds.cols |->
                        [i \in 1..newCapacity |->
                            IF i > ds.length THEN NaN
                            ELSE Grown(ds.cols[n], NaN)[i]]],
            !.capacity = newCapacity]

\* ColumnarStorage.addValue(value)
AddValue(ds, value) ==
    LET d == IF ds.length >= ds.capacity THEN Resize(ds) ELSE ds
    IN  IF IsNumber(value)
        THEN [d EXCEPT !.numericValues = TypedSet(d.numericValues, d.length, value),
                       !.length = d.length + 1]
        ELSE [d EXCEPT !.isNumeric = FALSE,
                       !.objectValues = ArraySet(d.objectValues, d.length, value),
                       !.length = d.length + 1]

\* new Dataset(data): the items are added one by one
RECURSIVE AddValues(_, _)
AddValues(ds, data) ==
    IF data = <<>> THEN ds ELSE AddValues(AddValue(ds, Head(data)), Tail(data))

NewDataset(data) == AddValues(EmptyDataset, data)

\* ColumnarStorage.getValue(index)
GetValue(ds, index) ==
    LET actualIndex == ActualIndex(ds, index)
    IN  IF ds.isNumeric THEN TypedGet(ds.numericValues, actualIndex)
        ELSE IF ArrayGet(ds.objectValues, actualIndex) # Undef
        THEN ds.objectValues[actualIndex]
        ELSE TypedGet(ds.numericValues, actualIndex)

\* ColumnarStorage.getValues()
Rows(ds) == [i \in 1..ds.length |-> GetValue(ds, i - 1)]

\* ColumnarStorage.mutateValue(index, value)
MutateValue(ds, index, value) ==
    LET actualIndex == ActualIndex(ds, index)
    IN  IF IsNumber(value)
        THEN [ds EXCEPT !.numericValues = TypedSet(ds.numericValues, actualIndex, value)]
        ELSE [ds EXCEPT !.isNumeric = FALSE,
                        !.objectValues = ArraySet(ds.objectValues, actualIndex, value)]

\* ensureIndicatorColumn without the fill: the cells of a new Float64Array
EnsureIndicatorColumn_NoFill(ds, name) ==
    IF name \in DOMAIN ds.cols THEN ds
    ELSE [ds EXCEPT !.cols =
            ObjSpread(ds.cols, [n \in {name} |-> [i \in 1..ds.capacity |-> Num(0)]])]

\* ColumnarStorage.ensureIndicatorColumn(name)
EnsureIndicatorColumn(ds, name) ==
    IF name \in DOMAIN ds.cols THEN ds
    ELSE [ds EXCEPT !.cols =
            ObjSpread(ds.cols, [n \in {name} |-> [i \in 1..ds.capacity |-> NaN]])]

\* ColumnarStorage.ensureStrategyColumn(name)
EnsureStrategyColumn(ds, name) ==
    IF name \in DOMAIN ds.strategyCols THEN ds
    ELSE [ds EXCEPT !.strategyCols =
            ObjSpread(ds.strategyCols, [n \in {name} |-> <<>>])]

\* ColumnarStorage.setIndicator(index, name, value)
StorageSetIndicator(ds, index, name, value) ==
    LET d == EnsureIndicatorColumn(ds, name)
        actualIndex == ActualIndex(d, index)
    IN  [d EXCEPT !.cols[name] = TypedSet(d.cols[name], actualIndex, value)]

\* ColumnarStorage.getIndicator(index, name)
StorageGetIndicator(ds, index, name) ==
    LET actualIndex == ActualIndex(ds, index)
    IN  IF name \in DOMAIN ds.cols THEN TypedGet(ds.cols[name], actualIndex)
        ELSE NaN

\* ColumnarStorage.setStrategy(index, name, value)
StorageSetStrategy(ds, index, name, value) ==
    LET d == EnsureStrategyColumn(ds, name)
        actualIndex == ActualIndex(d, index)
    IN  [d EXCEPT !.strategyCols[name] =
                      ArraySet(d.strategyCols[name], actualIndex, value)]

\* ColumnarStorage.getStrategy(index, name)
StorageGetStrategy(ds, index, name) ==
    LET actualIndex == ActualIndex(ds, index)
    IN  IF name \in DOMAIN ds.strategyCols
        THEN (IF actualIndex \in DOMAIN ds.strategyCols[name]
              THEN ds.strategyCols[name][actualIndex] ELSE NoStrategy)
        ELSE NoStrategy

\* the name the strategy is registered under
StrategyName == "strategy"

\* Dataset.createQuoteAt(index): the quote carries every indicator column of
\* the storage and the stored position, if any
CreateQuoteAt(ds, index) ==
    LET sv == StorageGetStrategy(ds, index, StrategyName)
    IN  [value |-> GetValue(ds, index),
         indicators |-> [n \in DOMAIN ds.cols |-> StorageGetIndicator(ds, index, n)],
         strategy |-> sv]

\* the undefined Dataset.at returns outside the rows
NoQuote == [value |-> Undef, indicators |-> <<>>, strategy |-> <<>>]

\* Dataset.at(position)
At(ds, position) ==
    LET actualIndex == ActualIndex(ds, position)
    IN  IF actualIndex < 0 \/ actualIndex >= Length(ds) THEN NoQuote
        ELSE CreateQuoteAt(ds, actualIndex)

\* Dataset.valueAt(position), no attribute given
ValueAt(ds, position) ==
    LET value == GetValue(ds, position)
    IN  IF IsNumber(value) THEN value ELSE Num(0)

\* a record row with the fields high, low and close
Bar(high, low, close) == <<close[1], close[2], "close", high, low>>

\* typeof value === 'object'
IsObject(value) == Len(value) > 2

\* value[attribute] of a record row
Field(value, attribute) ==
    CASE attribute = value[3] -> FieldNumber(value)
      [] attribute = "high" /\ Len(value) = 5 -> value[4]
      [] attribute = "low" /\ Len(value) = 5 -> value[5]
      [] OTHER -> Undef

\* attribute in value
HasField(value, attribute) ==
    attribute = value[3] \/ (Len(value) = 5 /\ attribute \in {"high", "low"})

\* no attribute given
NoAttribute == ""

\* Dataset.valueAt(position, attribute)
ValueAtAttribute(ds, position, attribute) ==
    LET value == GetValue(ds, position)
    IN  IF attribute # NoAttribute /\ IsObject(value) THEN Field(value, attribute)
        ELSE IF IsNumber(value) THEN value ELSE Num(0)

\* Dataset.flatten(attribute)
Flatten(ds, attribute) ==
    [i \in 1..Length(ds) |-> ValueAtAttribute(ds, i - 1, attribute)]

\* Dataset.setIndicator(metadata)
SetIndicator(ds, name) ==
    EnsureIndicatorColumn([ds EXCEPT !.indicators = Append(ds.indicators, name)], name)

\* Dataset.setStrategy(metadata)
SetStrategy(ds, name) ==
    EnsureStrategyColumn([ds EXCEPT !.strategies = Append(ds.strategies, name)], name)

\* Dataset.mutateAt(at, quote)
RECURSIVE MutateIndicators(_, _, _, _)
MutateIndicators(ds, at, quote, names) ==
    IF names = {} THEN ds
    ELSE LET n == CHOOSE x \in names : TRUE
         IN  MutateIndicators(StorageSetIndicator(ds, at, n, quote.indicators[n]),
                              at, quote, names \ {n})

MutateAt(ds, at, quote) ==
    LET actualIndex == ActualIndex(ds, at)
        d1 == MutateValue(ds, actualIndex, quote.value)
        d2 == MutateIndicators(d1, actualIndex, quote, DOMAIN quote.indicators)
    IN  IF quote.strategy = NoStrategy THEN d2
        ELSE StorageSetStrategy(d2, actualIndex, StrategyName, quote.strategy)

----------------------------------------------------------------------------
(* Indicators: SMA, EMA and GoldenCrossStrategy's previous-value indicators *)

\* the period of the sma2 indicator of the sma2 strategy
SmaPeriod == 2

\* the period each moving average was constructed with
Period(name) ==
    CASE name = "sma2" -> SmaPeriod
      [] name = "slowSMA" -> SlowPeriod
      [] name = "fastEMA" -> FastPeriod
      [] name \in {"averageGain", "averageLoss"} -> OscillatorPeriod
      [] OTHER -> 0

\* the column a previous-value indicator reads
PrevTarget(name) == IF name = "prevFastEMA" THEN "fastEMA" ELSE "slowSMA"

\* Indicator.hasIncremental(): EMA, AverageGain and AverageLoss call
\* withIncremental
hasIncremental(name) == name \in {"fastEMA", "averageGain", "averageLoss"}

\* total of the raw values at indices from..to-1
RECURSIVE SumValues(_, _, _)
SumValues(ds, from, to) ==
    IF from >= to THEN Num(0)
    ELSE RAdd(ValueAt(ds, from), SumValues(ds, from + 1, to))

\* the calculate function of SMA
SMA(name, period, ds) ==
    LET datasetLength == Length(ds)
        prevQuote == At(ds, -2)
        lastSMA == IF prevQuote = NoQuote THEN Undef
                   ELSE GetIndicator(prevQuote, name)
    IN  IF lastSMA # Undef /\ datasetLength > period
        THEN LET firstAttributeValue == ValueAt(ds, -1 - period)
                 lastAttributeValue == ValueAt(ds, -1)
                 change == RSub(lastAttributeValue, firstAttributeValue)
             IN  RDiv(RAdd(RMul(lastSMA, Num(period)), change), Num(period))
        ELSE IF datasetLength < period THEN ValueAt(ds, -1)
        ELSE RDiv(SumValues(ds, datasetLength - period, datasetLength), Num(period))

\* the loop of EMA's calculate function over rows i..datasetLength-1
RECURSIVE EMALoop(_, _, _, _)
EMALoop(ds, i, ema, smoothing) ==
    IF i >= Length(ds) THEN ema
    ELSE EMALoop(ds, i + 1,
                 RAdd(RMul(ValueAt(ds, i), smoothing),
                      RMul(ema, RSub(Num(1), smoothing))),
                 smoothing)

\* the calculate function of EMA
EMA(name, period, ds) ==
    LET datasetLength == Length(ds)
        smoothing == Rat(2, period + 1)
    IN  IF datasetLength < period THEN NaN
        ELSE IF datasetLength = period THEN SMA("sma_temp", period, ds)
        ELSE EMALoop(ds, period, RDiv(SumValues(ds, 0, period), Num(period)),
                     smoothing)

\* the calculate function of prevFastEMAIndicator and prevSlowSMAIndicator
PrevIndicator(name, ds) ==
    LET currentIndex == Length(ds) - 1
    IN  IF currentIndex < 1 THEN NaN
        ELSE LET v == GetIndicator(CreateQuoteAt(ds, currentIndex - 1),
                                   PrevTarget(name))
             IN  IF v = Undef THEN NaN ELSE v

\* the gain (sign 1) or loss (sign -1) of the step from previous to current
Change(previous, current, sign) ==
    LET difference == RSub(current, previous)
    IN  IF sign = 1 THEN (IF RGt(difference, Num(0)) THEN difference ELSE Num(0))
        ELSE (IF RLt(difference, Num(0)) THEN RSub(Num(0), difference) ELSE Num(0))

\* total gain or loss of the steps from index i on
RECURSIVE SumChanges(_, _, _)
SumChanges(array, i, sign) ==
    IF i > Len(array) THEN Num(0)
    ELSE RAdd(Change(array[i - 1], array[i], sign), SumChanges(array, i + 1, sign))

\* getAverageGain / getAverageLoss(array, period): the mean gain or loss of
\* the last period steps, undefined when there are fewer
GetAverage(array, period, sign) ==
    IF Len(array) <= period THEN Undef
    ELSE RDiv(SumChanges(array, Len(array) - period + 1, sign), Num(period))

\* x || NaN
OrNaN(x) == IF Truthy(x) THEN x ELSE NaN

\* the attribute RSI hands to its averages
RsiAttribute == "close"

\* the calculate function of AverageGain and AverageLoss
Average(name, period, ds) ==
    OrNaN(GetAverage(Flatten(ds, RsiAttribute), period,
                     IF name = "averageGain" THEN 1 ELSE -1))

\* Indicator.calculate(dataset)
Calculate(name, ds) ==
    CASE name \in {"sma2", "slowSMA"} -> SMA(name, Period(name), ds)
      [] name = "fastEMA" -> EMA(name, Period(name), ds)
      [] name \in {"averageGain", "averageLoss"} -> Average(name, Period(name), ds)
      [] OTHER -> PrevIndicator(name, ds)

\* the function EMA hands to withIncremental
\* the incremental function with the plain mean of the value and prevEMA
EMAIncremental_PlainMean(name, period, prevEMA, newQuote, ds) ==
    IF Length(ds) < period THEN NaN
    ELSE IF IsNaN(prevEMA) THEN Calculate(name, ds)
    ELSE RDiv(RAdd(newQuote.value, prevEMA), Num(2))

EMAIncremental(name, period, prevEMA, newQuote, ds) ==
    LET smoothing == Rat(2, period + 1)
    IN  IF Length(ds) < period THEN NaN
        ELSE IF IsNaN(prevEMA) THEN Calculate(name, ds)
        ELSE RAdd(RMul(newQuote.value, smoothing),
                  RMul(prevEMA, RSub(Num(1), smoothing)))

\* the function AverageGain and AverageLoss hand to withIncremental
AverageIncremental(name, period, prevAverage, newQuote, ds) ==
    IF Length(ds) <= period \/ IsNaN(prevAverage) THEN Calculate(name, ds)
    ELSE LET lastQuoteValue ==
                 IF IsObject(newQuote.value) THEN Field(newQuote.value, RsiAttribute)
                 ELSE newQuote.value
             secondLastQuoteValue == ValueAtAttribute(ds, -2, RsiAttribute)
             current == Change(secondLastQuoteValue, lastQuoteValue,
                               IF name = "averageGain" THEN 1 ELSE -1)
         IN  RDiv(RAdd(RMul(prevAverage, Num(period - 1)), current), Num(period))

\* Indicator.calculateIncremental(previousValue, newQuote, dataset)
calculateIncremental(name, previousValue, newQuote, ds) ==
    IF name = "fastEMA"
    THEN EMAIncremental(name, Period(name), previousValue, newQuote, ds)
    ELSE IF hasIncremental(name)
    THEN AverageIncremental(name, Period(name), previousValue, newQuote, ds)
    ELSE Calculate(name, ds)

----------------------------------------------------------------------------
(* Dataset.add, Indicator.spread, Dataset.apply, Dataset.prepare *)

\* the indicator part of Dataset.add for the indicators from list position k on
\* Dataset.add takes the calculateIncremental branch for indicator name on a
\* dataset that already holds the new row
AddUsesIncremental(ds, name) ==
    LET prevValue == StorageGetIndicator(ds, Length(ds) - 2, name)
    IN  hasIncremental(name) /\ Length(ds) > 1
            /\ prevValue # Undef /\ ~IsNaN(prevValue)

\* Indicator.spread has one way to a row's value, this.calculate(tempDataset),
\* which runs the full function: no branch of it calls calculateIncremental
SpreadUsesIncremental(name, tempDataset) == FALSE

RECURSIVE AddIndicators(_, _, _)
AddIndicators(ds, value, k) ==
    IF k > Len(ds.indicators) THEN ds
    ELSE LET name == ds.indicators[k]
             newIndex == Length(ds) - 1
             prevValue == StorageGetIndicator(ds, newIndex - 1, name)
             indicatorValue ==
                 IF hasIncremental(name) /\ Length(ds) > 1
                 THEN IF prevValue # Undef /\ ~IsNaN(prevValue)
                      THEN calculateIncremental(name, prevValue, Quote(value), ds)
                      ELSE Calculate(name, ds)
                 ELSE Calculate(name, ds)
         IN  AddIndicators(StorageSetIndicator(ds, newIndex, name, indicatorValue),
                           value, k + 1)

\* the quote Dataset.add hands to the strategy: the value with the new row's
\* value of every registered indicator
RECURSIVE TempQuote(_, _, _, _)
TempQuote(ds, quote, newIndex, k) ==
    IF k > Len(ds.indicators) THEN quote
    ELSE TempQuote(ds,
                   QuoteSetIndicator(quote, ds.indicators[k],
                       StorageGetIndicator(ds, newIndex, ds.indicators[k])),
                   newIndex, k + 1)

\* the position stored for a row: the strategy applied to the quote and the
\* last position, passed through TradePosition.update once more
NextPosition(c, quote, lastStrategyValue) ==
    LET lastPosition == IF lastStrategyValue # NoStrategy
                        THEN lastStrategyValue.position
                        ELSE TradePosition("idle", NoOptions)
        newPosition == Apply(c, quote, lastPosition)
    IN  Update(lastPosition, newPosition)

\* the strategy part of Dataset.add for the strategies from list position k on
\* strat.strategy.apply(tempQuote, lastPosition) raises
ApplyThrows(c, quote, lastStrategyValue) ==
    Apply(c, quote, IF lastStrategyValue # NoStrategy
                    THEN lastStrategyValue.position
                    ELSE TradePosition("idle", NoOptions)) = Threw

RECURSIVE AddStrategies(_, _, _, _)
\* the strategies loop of Dataset.add: an exception leaves the loop, and the
\* dataset stays as the statements before it made it
AddStrategies(ds, value, c, k) ==
    IF k > Len(ds.strategies) THEN ds
    ELSE LET name == ds.strategies[k]
             newIndex == Length(ds) - 1
             lastStrategyValue ==
                 IF Length(ds) > 1 THEN StorageGetStrategy(ds, newIndex - 1, name)
                 ELSE NoStrategy
             tempQuote == TempQuote(ds, Quote(value), newIndex, 1)
             updatedPosition == NextPosition(c, tempQuote, lastStrategyValue)
         IN  IF ApplyThrows(c, tempQuote, lastStrategyValue) THEN ds
             ELSE AddStrategies(
                 StorageSetStrategy(ds, newIndex, name, [position |-> updatedPosition]),
                 value, c, k + 1)

RECURSIVE AddStrategiesThrow(_, _, _, _)
\* the strategies loop of Dataset.add is left by an exception
AddStrategiesThrow(ds, value, c, k) ==
    IF k > Len(ds.strategies) THEN FALSE
    ELSE LET name == ds.strategies[k]
             newIndex == Length(ds) - 1
             lastStrategyValue ==
                 IF Length(ds) > 1 THEN StorageGetStrategy(ds, newIndex - 1, name)
                 ELSE NoStrategy
             tempQuote == TempQuote(ds, Quote(value), newIndex, 1)
             updatedPosition == NextPosition(c, tempQuote, lastStrategyValue)
         IN  IF ApplyThrows(c, tempQuote, lastStrategyValue) THEN TRUE
             ELSE AddStrategiesThrow(
                 StorageSetStrategy(ds, newIndex, name, [position |-> updatedPosition]),
                 value, c, k + 1)

\* Dataset.add(quote)
Add(ds, value, c) ==
    AddStrategies(AddIndicators(AddValue(ds, value), value, 1), value, c, 1)

\* dataset.add(value) raises
AddThrows(ds, value, c) ==
    AddStrategiesThrow(AddIndicators(AddValue(ds, value), value, 1), value, c, 1)

\* the loop of Indicator.spread from row i on; tempDataset holds the raw
\* values of the rows before i and no column
RECURSIVE SpreadLoop(_, _, _, _, _)
SpreadLoop(name, ds, tempDataset, i, c) ==
    IF i >= Length(ds) THEN ds
    ELSE LET quote == At(ds, i)
             temp == Add(tempDataset, quote.value, c)
             indicatorValue == Calculate(name, temp)
             quoteWithIndicator == QuoteSetIndicator(quote, name, indicatorValue)
         IN  SpreadLoop(name, MutateAt(ds, i, quoteWithIndicator), temp, i + 1, c)

\* spread with a temporary dataset that starts as a copy of the dataset
spread_FromCopy(name, ds, c) == SpreadLoop(name, ds, NewDataset(Rows(ds)), 0, c)

\* Indicator.spread(dataset)
spread(name, ds, c) == SpreadLoop(name, ds, EmptyDataset, 0, c)

\* Dataset.apply(...indicators) for the indicators from list position k on
RECURSIVE ApplyIndicators(_, _, _, _)
ApplyIndicators(ds, names, k, c) ==
    IF k > Len(names) THEN ds
    ELSE ApplyIndicators(spread(names[k], SetIndicator(ds, names[k]), c),
                         names, k + 1, c)

\* the position loop of Dataset.prepare from row i on
RECURSIVE PrepareLoop(_, _, _)
PrepareLoop(ds, c, i) ==
    IF i >= Length(ds) THEN ds
    ELSE LET quote == At(ds, i)
             lastStrategyValue ==
                 IF i > 0 THEN StorageGetStrategy(ds, i - 1, StrategyName)
                 ELSE NoStrategy
             updatedPosition == NextPosition(c, quote, lastStrategyValue)
         IN  PrepareLoop(
                 StorageSetStrategy(ds, i, StrategyName, [position |-> updatedPosition]),
                 c, i + 1)

\* strategy.options.indicators
StrategyIndicators(c) ==
    CASE c.kind = "sma2" -> <<"sma2">>
      [] c.kind = "golden" -> <<"fastEMA", "slowSMA", "prevFastEMA", "prevSlowSMA">>
      [] OTHER -> <<>>

\* Dataset.prepare(strategy)
Prepare(ds, c) ==
    PrepareLoop(SetStrategy(ApplyIndicators(ds, StrategyIndicators(c), 1, c),
                            StrategyName),
                c, 0)

----------------------------------------------------------------------------
(* Oscillators: Stochastic %K, Williams %R, CCI and RSI *)

PosInf == <<1, 0>>
NegInf == <<-1, 0>>

\* Number(x)
ToNumber(x) == IF x = Undef THEN NaN ELSE x

\* x > y and x < y where y may be the infinity a search starts from
Greater(x, y) == (y = NegInf /\ IsNum(x)) \/ RGt(x, y)
Less(x, y) == (y = PosInf /\ IsNum(x)) \/ RLt(x, y)

\* the search for the highest high over rows i..length-1
RECURSIVE HighestHigh(_, _, _, _)
HighestHigh(ds, i, high, highestHigh) ==
    IF i >= Length(ds) THEN highestHigh
    ELSE LET highValue == ToNumber(ValueAtAttribute(ds, i, high))
         IN  HighestHigh(ds, i + 1, high,
                         IF Greater(highValue, highestHigh) THEN highValue
                         ELSE highestHigh)

\* the search for the lowest low over rows i..length-1
RECURSIVE LowestLow(_, _, _, _)
LowestLow(ds, i, low, lowestLow) ==
    IF i >= Length(ds) THEN lowestLow
    ELSE LET lowValue == ToNumber(ValueAtAttribute(ds, i, low))
         IN  LowestLow(ds, i + 1, low,
                       IF Less(lowValue, lowestLow) THEN lowValue ELSE lowestLow)

\* highestHigh - lowestLow: minus infinity while a search found no number
Range(highestHigh, lowestLow) ==
    IF IsNum(highestHigh) /\ IsNum(lowestLow) THEN RSub(highestHigh, lowestLow)
    ELSE NegInf

\* calculateStochasticK without the test of the range
calculateStochasticK_NoRangeTest(ds, params) ==
    LET kPeriod == params.period
        datasetLength == Length(ds)
        currentClose == ToNumber(ValueAtAttribute(ds, -1, params.close))
        highestHigh == HighestHigh(ds, datasetLength - kPeriod, params.high, NegInf)
        lowestLow == LowestLow(ds, datasetLength - kPeriod, params.low, PosInf)
        range == Range(highestHigh, lowestLow)
    IN  IF datasetLength < kPeriod THEN NaN
        ELSE RMul(Num(100), RDiv(RSub(currentClose, lowestLow), range))

\* calculateStochasticK(dataset, kPeriod, high, low, close), which is what
\* Stochastic of type 'k' returns
calculateStochasticK(ds, params) ==
    LET kPeriod == params.period
        datasetLength == Length(ds)
        currentClose == ToNumber(ValueAtAttribute(ds, -1, params.close))
        highestHigh == HighestHigh(ds, datasetLength - kPeriod, params.high, NegInf)
        lowestLow == LowestLow(ds, datasetLength - kPeriod, params.low, PosInf)
        range == Range(highestHigh, lowestLow)
    IN  IF datasetLength < kPeriod THEN NaN
        ELSE IF range = Num(0) THEN Num(50)
        ELSE IF range = NegInf
        THEN (IF IsNum(lowestLow) /\ IsNum(currentClose) THEN Num(0) ELSE NaN)
        ELSE RMul(Num(100), RDiv(RSub(currentClose, lowestLow), range))

\* the calculate function of WilliamsR
WilliamsR(ds, params) ==
    LET period == params.period
        datasetLength == Length(ds)
        currentClose == ToNumber(ValueAtAttribute(ds, -1, params.close))
        highestHigh == HighestHigh(ds, datasetLength - period, params.high, NegInf)
        lowestLow == LowestLow(ds, datasetLength - period, params.low, PosInf)
        range == Range(highestHigh, lowestLow)
    IN  IF datasetLength < period THEN NaN
        ELSE IF range = Num(0) THEN Num(-50)
        ELSE IF range = NegInf
        THEN (IF IsNum(highestHigh) /\ IsNum(currentClose) THEN Num(0) ELSE NaN)
        ELSE RMul(Num(-100), RDiv(RSub(highestHigh, currentClose), range))

\* calculateTypicalPrice(dataset, index, high, low, close)
calculateTypicalPrice(ds, index, params) ==
    LET highValue == ToNumber(ValueAtAttribute(ds, index, params.high))
        lowValue == ToNumber(ValueAtAttribute(ds, index, params.low))
        closeValue == ToNumber(ValueAtAttribute(ds, index, params.close))
    IN  RDiv(RAdd(RAdd(highValue, lowValue), closeValue), Num(3))

\* total of the typical prices of rows i..length-1
RECURSIVE SumTypicalPrice(_, _, _)
SumTypicalPrice(ds, i, params) ==
    IF i >= Length(ds) THEN Num(0)
    ELSE RAdd(calculateTypicalPrice(ds, i, params), SumTypicalPrice(ds, i + 1, params))

\* Math.abs
RAbs(x) == IF IsNum(x) THEN <<Abs(x[1]), x[2]>> ELSE NaN

\* total of |typical price - smaValue| over rows i..length-1
RECURSIVE SumDeviation(_, _, _, _)
SumDeviation(ds, i, smaValue, params) ==
    IF i >= Length(ds) THEN Num(0)
    ELSE RAdd(RAbs(RSub(calculateTypicalPrice(ds, i, params), smaValue)),
              SumDeviation(ds, i + 1, smaValue, params))

\* calculateMeanDeviation(dataset, period, smaValue, high, low, close)
calculateMeanDeviation(ds, period, smaValue, params) ==
    RDiv(SumDeviation(ds, Length(ds) - period, smaValue, params), Num(period))

\* the calculate function of CCI
CCI(ds, params) ==
    LET period == params.period
        datasetLength == Length(ds)
        currentTypicalPrice == calculateTypicalPrice(ds, datasetLength - 1, params)
        smaTypicalPrice ==
            RDiv(SumTypicalPrice(ds, datasetLength - period, params), Num(period))
        meanDeviation == calculateMeanDeviation(ds, period, smaTypicalPrice, params)
    IN  IF datasetLength < period THEN NaN
        ELSE IF meanDeviation = Num(0) THEN Num(0)
        ELSE RDiv(RSub(currentTypicalPrice, smaTypicalPrice),
                  RMul(Rat(15, 1000), meanDeviation))

\* the beforeCalculate hook of RSI
RsiBeforeCalculate(ds, period, c) ==
    IF Length(ds) > period
    THEN ApplyIndicators(ds, <<"averageGain", "averageLoss">>, 1, c)
    ELSE ds

\* x ?? NaN
OrElseNaN(x) == IF x = Undef THEN NaN ELSE x

\* the calculate function of RSI, on the dataset its hook has been run on
RsiFunction(ds, period) ==
    LET averageGain == OrElseNaN(GetIndicator(At(ds, -1), "averageGain"))
        averageLoss == OrElseNaN(GetIndicator(At(ds, -1), "averageLoss"))
        ratio == RDiv(averageGain, averageLoss)
        relativeStrength == IF IsNaN(ratio) THEN Num(0) ELSE ratio
    IN  IF Length(ds) <= period THEN NaN
        ELSE RSub(Num(100), RDiv(Num(100), RAdd(Num(1), relativeStrength)))

\* Indicator.calculate(dataset) of an RSI: the dataset the hook leaves and
\* the value returned
RSI(ds, period, c) ==
    LET prepared == RsiBeforeCalculate(ds, period, c)
    IN  [dataset |-> prepared, value |-> RsiFunction(prepared, period)]

----------------------------------------------------------------------------
(* Backtest *)

\* the runner's onEntry and onExit callbacks: the row's value, and for the
\* runner "slip" an entry one unit above it
OnEntry(c, quote) ==
    IF c.runner = "slip" THEN RAdd(quote.value, Num(1))
    ELSE IF c.runner = "field" THEN FieldNumber(quote.value)
    ELSE quote.value
OnExit(c, quote) ==
    IF c.runner = "field" THEN FieldNumber(quote.value) ELSE quote.value

\* config.entryPriceField || 'close'
EntryPriceField(c) ==
    IF c.entryPriceField = "undefined" THEN "close" ELSE c.entryPriceField

\* getEntryPrice reaches its throw statement
EntryPriceThrows_Never(quote, c) == FALSE

EntryPriceThrows(quote, c) ==
    /\ c.entryPriceField # "function"
    /\ ~IsNumber(quote.value)
    /\ ~(IsObject(quote.value) /\ HasField(quote.value, EntryPriceField(c)))

\* Backtest.getEntryPrice(quote, config), where it returns; the function a
\* config may carry reads the number of the row
GetEntryPrice(quote, c) ==
    IF c.entryPriceField = "function" THEN FieldNumber(quote.value)
    ELSE IF IsNumber(quote.value) THEN quote.value
    ELSE IF IsObject(quote.value) /\ HasField(quote.value, EntryPriceField(c))
    THEN Field(quote.value, EntryPriceField(c))
    ELSE Undef

\* the iteration without the forced exit of the last row
RunRow_NoForcedExit(r, ds, c, i) ==
    LET quote == At(ds, i)
        position == QuotePosition(quote)
    IN  IF position.value = "entry"
        THEN LET positionWithEntry ==
                     TradePosition(position.value,
                         ObjSpread(position.options,
                             [entryPrice |-> GetEntryPrice(quote, c),
                              entryDate |-> "now"]))
                 q == QuoteSetStrategy(quote, positionWithEntry)
             IN  MarkEntry(r, OnEntry(c, q), q)
        ELSE IF position.value = "exit"
        THEN MarkExit(r, OnExit(c, quote), quote)
        ELSE r

\* the iteration that closes the ledger on every last row, open or not
RunRow_ClosesEveryLastRow(r, ds, c, i) ==
    LET quote == At(ds, i)
        position == QuotePosition(quote)
    IN  IF i = Length(ds) - 1
        THEN MarkExit(r, OnExit(c, quote), quote)
        ELSE IF position.value = "entry"
        THEN LET positionWithEntry ==
                     TradePosition(position.value,
                         ObjSpread(position.options,
                             [entryPrice |-> GetEntryPrice(quote, c),
                              entryDate |-> "now"]))
                 q == QuoteSetStrategy(quote, positionWithEntry)
             IN  MarkEntry(r, OnEntry(c, q), q)
        ELSE IF position.value = "exit"
        THEN MarkExit(r, OnExit(c, quote), quote)
        ELSE r

\* one iteration of the loop of Backtest.run: row i of the prepared dataset
RunRow(r, ds, c, i) ==
    LET quote == At(ds, i)
        position == QuotePosition(quote)
    IN  IF i = Length(ds) - 1 /\ IsOpen(position)
        THEN MarkExit(r, OnExit(c, quote), quote)
        ELSE IF position.value = "entry"
        THEN LET positionWithEntry ==
                     TradePosition(position.value,
                         ObjSpread(position.options,
                             [entryPrice |-> GetEntryPrice(quote, c),
                              entryDate |-> "now"]))
                 q == QuoteSetStrategy(quote, positionWithEntry)
             IN  MarkEntry(r, OnEntry(c, q), q)
        ELSE IF position.value = "exit"
        THEN MarkExit(r, OnExit(c, quote), quote)
        ELSE r

\* the dataset after the iteration for row i, had the entry branch written
\* the position with the entry price to the storage
RunDataset_StoresEntry(ds, c, i) ==
    LET quote == At(ds, i)
        position == QuotePosition(quote)
    IN  IF position.value = "entry" /\ ~(i = Length(ds) - 1)
        THEN StorageSetStrategy(ds, i, StrategyName,
                 [position |-> TradePosition(position.value,
                     ObjSpread(position.options,
                         [entryPrice |-> GetEntryPrice(quote, c),
                          entryDate |-> "now"]))])
        ELSE ds

\* the dataset after the iteration for row i: the quote is built for the
\* iteration by Dataset.at, and the entry branch calls setStrategy on that
\* quote; no statement of the loop writes to the storage
RunDataset(ds, c, i) == ds

\* which ledger operation the iteration for row i performs
RunRowOp(ds, i) ==
    LET position == QuotePosition(At(ds, i))
    IN  IF i = Length(ds) - 1 /\ IsOpen(position) THEN "markExit"
        ELSE IF position.value = "entry" THEN "markEntry"
        ELSE IF position.value = "exit" THEN "markExit"
        ELSE "none"

\* the iteration for row i raises 'Cannot determine entry price from quote'
RunRowThrows(ds, c, i) ==
    RunRowOp(ds, i) = "markEntry" /\ EntryPriceThrows(At(ds, i), c)

\* config.capital of the runner
RunCapital == Num(6)

\* the report Backtest.run holds after the iterations for rows 0..i-1
RECURSIVE RunTo(_, _, _)
RunTo(ds, c, i) ==
    IF i = 0 THEN NewReport(RunCapital)
    ELSE RunRow(RunTo(ds, c, i - 1), ds, c, i - 1)

----------------------------------------------------------------------------
(* Inputs *)

\* raw values of the rows
Values == {1, 2, 3}
\* prices handed to markEntry and markExit
Prices == {2, 3}
\* initial capitals
Capitals == {6, 10}
\* raw values read as predicate outcomes: bits 1, 2, 4, 8 are the long entry,
\* long exit, stop-loss and take-profit predicates, 16 and 32 the short pair
BitValues == 0..63

ExitReasons == {"stop-loss", "take-profit", "strategy"}

\* the options objects positions are given
OptionInputs ==
    {NoOptions, [exitReason |-> "strategy"], [short |-> TRUE],
     [entryPrice |-> Num(2), exitReason |-> "undefined"],
     [entryPrice |-> Num(3), short |-> FALSE]}

PositionInputs == {TradePosition(k, o) : k \in Kinds, o \in OptionInputs}

\* strategies whose predicates read the bits of the raw value
BitConfigs ==
    {[kind |-> "bits", stopLoss |-> sl, takeProfit |-> tp,
      hasLong |-> ~sh, hasShort |-> sh, runner |-> "value",
      entryPriceField |-> "undefined"] :
        sl \in BOOLEAN, tp \in BOOLEAN, sh \in BOOLEAN}

\* the strategies driven through the datasets
DatasetConfigs ==
    {[kind |-> k, stopLoss |-> sl, takeProfit |-> tp,
      hasLong |-> TRUE, hasShort |-> FALSE, runner |-> r,
      entryPriceField |-> "undefined"] :
        k \in {"sma2", "golden"}, sl \in BOOLEAN, tp \in BOOLEAN,
        r \in {"value", "slip"}}

\* the strategies driven through datasets of record rows, with the runner's
\* config.entryPriceField: none, the name of the rows' field, or a function
RecordConfigs ==
    {[kind |-> "field", stopLoss |-> FALSE, takeProfit |-> FALSE,
      hasLong |-> TRUE, hasShort |-> FALSE, runner |-> "field",
      entryPriceField |-> f] : f \in {"undefined", "open", "function"}}

NoOp == [op |-> "none", price |-> Num(0), row |-> -1, before |-> NewReport(Num(0))]

\* no run call has returned yet
NotReturned == NewReport(Num(0))

\* the values every specification starts the variables of the others from
PositionIdle ==
    /\ posOld = TradePosition("idle", NoOptions)
    /\ posNew = TradePosition("idle", NoOptions)
    /\ posOut = TradePosition("idle", NoOptions)
    /\ posCalls = 0

StrategyIdle ==
    /\ stCfg = CHOOSE c \in BitConfigs : c.hasLong /\ ~c.stopLoss /\ ~c.takeProfit
    /\ stQuote = Quote(Num(0))
    /\ stPrev = TradePosition("idle", NoOptions)
    /\ stObs = "none"
    /\ stOut = TradePosition("idle", NoOptions)
    /\ stCalls = 0
    /\ stSeen = NotSeen(stQuote)

LedgerIdle ==
    /\ report = NewReport(Num(0))
    /\ lastOp = NoOp
    /\ returned = NotReturned

DatasetIdle ==
    /\ cfg = CHOOSE c \in DatasetConfigs :
                c.kind = "sma2" /\ ~c.stopLoss /\ ~c.takeProfit /\ c.runner = "value"
    /\ stream = EmptyDataset
    /\ batch = EmptyDataset
    /\ phase = "new"
    /\ runI = 0

\* no call made on the storage yet
NoStoreOp == [op |-> "none", value |-> Undef, before |-> EmptyDataset]

StorageIdle ==
    /\ store = EmptyDataset
    /\ storeOp = NoStoreOp
    /\ written = {}

\* the params of an oscillator: with the three fields of record rows named,
\* or with none
OscillatorParams(named) ==
    [period |-> OscillatorPeriod,
     high |-> IF named THEN "high" ELSE NoAttribute,
     low |-> IF named THEN "low" ELSE NoAttribute,
     close |-> IF named THEN "close" ELSE NoAttribute]

\* the indicators calculated and the values they returned
NoValue == [calculated |-> {}, stochastic |-> NaN, williamsR |-> NaN, cci |-> NaN,
            rsi |-> NaN]

\* no indicator calculated yet
IndicatorIdle ==
    /\ indDs = EmptyDataset
    /\ indParams = OscillatorParams(FALSE)
    /\ indOut = NoValue

\* the two instances
InstanceIds == {1, 2}

\* the strategy of each instance: the sma2 strategy, of the second instance
\* with a stop-loss
InstanceConfig(i) ==
    CHOOSE c \in DatasetConfigs :
        /\ c.kind = "sma2" /\ c.runner = "value" /\ ~c.takeProfit
        /\ c.stopLoss = (i = 2)

\* a new Dataset() with the calls made on it and on its Backtest so far, and
\* the report the last run returned
NewInstance ==
    [dataset |-> EmptyDataset, report |-> NewReport(Num(0)), built |-> FALSE,
     calls |-> <<>>]

\* no call made on either instance
InstanceIdle == inst = [i \in InstanceIds |-> NewInstance]

positionVars == <<posOld, posNew, posOut, posCalls>>
strategyVars == <<stCfg, stQuote, stPrev, stOut, stCalls, stObs, stSeen>>
ledgerVars == <<report, lastOp, returned>>
datasetVars == <<cfg, stream, batch, phase, runI>>
storageVars == <<store, storeOp, written>>
indicatorVars == <<indDs, indParams, indOut>>
instanceVars == <<inst>>

----------------------------------------------------------------------------
(* SpecPosition: TradePosition.update on drawn positions *)

UpdateCall ==
    /\ posCalls = 0
    /\ posOut' = Update(posOld, posNew)
    /\ posCalls' = 1
    /\ UNCHANGED <<instanceVars, indicatorVars, posOld, posNew, strategyVars, ledgerVars, datasetVars, storageVars>>

\* TradePosition.update(lastPosition, newPosition) applied to a position that
\* already is the result of an update from lastPosition, as Dataset.add and
\* Dataset.prepare do with the position Strategy.apply returns
UpdateAgain ==
    /\ posCalls = 1
    /\ posOut' = Update(posOld, posOut)
    /\ posCalls' = 2
    /\ UNCHANGED <<instanceVars, indicatorVars, posOld, posNew, strategyVars, ledgerVars, datasetVars, storageVars>>

InitPosition ==
    /\ posOld \in PositionInputs
    /\ posNew \in PositionInputs
    /\ posOut = TradePosition("idle", NoOptions)
    /\ posCalls = 0
    /\ StrategyIdle /\ LedgerIdle /\ DatasetIdle /\ StorageIdle /\ IndicatorIdle /\ InstanceIdle
NextPosition_ == UpdateCall \/ UpdateAgain
SpecPosition == InitPosition /\ [][NextPosition_]_vars

----------------------------------------------------------------------------
(* SpecStrategy: Strategy.apply on drawn strategies, quotes and positions *)

ApplyCall ==
    /\ stCalls = 0
    /\ LET applied == ApplyObserved(stCfg, stObs, stQuote, stPrev)
       IN  /\ stOut' = applied.position
           /\ stSeen' = [calls |-> applied.calls, quote |-> applied.quote]
    /\ stCalls' = 1
    /\ UNCHANGED <<instanceVars, indicatorVars, stCfg, stQuote, stPrev, stObs, positionVars, ledgerVars,
                   datasetVars, storageVars>>

InitStrategy ==
    /\ stCfg \in BitConfigs
    /\ stQuote \in {Quote(Num(v)) : v \in BitValues}
    /\ stPrev \in PositionInputs
    /\ stObs \in Observers
    /\ stOut = TradePosition("idle", NoOptions)
    /\ stCalls = 0
    /\ stSeen = NotSeen(stQuote)
    /\ PositionIdle /\ LedgerIdle /\ DatasetIdle /\ StorageIdle /\ IndicatorIdle /\ InstanceIdle
NextStrategy == ApplyCall
SpecStrategy == InitStrategy /\ [][NextStrategy]_vars

----------------------------------------------------------------------------
(* SpecLedger: any sequence of markEntry and markExit calls on one report *)

\* the quote of a ledger call: a row whose position has the given kind and
\* exit reason
LedgerQuote(price, kind, options) ==
    QuoteSetStrategy(Quote(Num(price)), TradePosition(kind, options))

LedgerMarkEntry ==
    /\ Len(report.trades) < MaxOps
    /\ \E p \in Prices :
          /\ report' = MarkEntry(report, Num(p), LedgerQuote(p, "entry", NoOptions))
          /\ lastOp' = [op |-> "markEntry", price |-> Num(p), row |-> -1,
                        before |-> report]
    /\ UNCHANGED <<instanceVars, indicatorVars, positionVars, strategyVars, datasetVars, storageVars, returned>>

LedgerMarkExit ==
    /\ Len(report.trades) < MaxOps
    /\ \E p \in Prices, o \in {NoOptions} \cup {[exitReason |-> e] : e \in ExitReasons} :
          /\ report' = MarkExit(report, Num(p), LedgerQuote(p, "exit", o))
          /\ lastOp' = [op |-> "markExit", price |-> Num(p), row |-> -1,
                        before |-> report]
    /\ UNCHANGED <<instanceVars, indicatorVars, positionVars, strategyVars, datasetVars, storageVars, returned>>

InitLedger ==
    /\ PositionIdle /\ StrategyIdle /\ DatasetIdle /\ StorageIdle /\ IndicatorIdle /\ InstanceIdle
    /\ \E cap \in Capitals : report = NewReport(Num(cap))
    /\ lastOp = NoOp
    /\ returned = NotReturned
NextLedger == LedgerMarkEntry \/ LedgerMarkExit
SpecLedger == InitLedger /\ [][NextLedger]_vars

----------------------------------------------------------------------------
(* Spec: a strategy registered on an empty dataset that then receives rows  *)
(* through add; a Backtest built on a new dataset of the same rows, which   *)
(* prepares it, and run row by row.                                         *)

\* dataset.prepare(strategy) on the empty dataset
Register ==
    /\ phase = "new"
    /\ stream' = Prepare(stream, cfg)
    /\ phase' = "stream"
    /\ UNCHANGED <<instanceVars, indicatorVars, storageVars, positionVars, strategyVars, ledgerVars, cfg, batch, runI>>

\* dataset.add(value)
AddRow ==
    /\ phase = "stream"
    /\ Length(stream) < MaxRows
    /\ \E v \in Values : stream' = Add(stream, Num(v), cfg)
    /\ UNCHANGED <<instanceVars, indicatorVars, storageVars, positionVars, strategyVars, ledgerVars, cfg, batch, phase, runI>>

\* new Backtest(new Dataset(rows), strategy)
NewBacktest ==
    /\ phase = "stream"
    /\ batch' = Prepare(NewDataset(Rows(stream)), cfg)
    /\ phase' = "prepared"
    /\ UNCHANGED <<instanceVars, indicatorVars, storageVars, positionVars, strategyVars, ledgerVars, cfg, stream, runI>>

\* Backtest.run: the report is created; the call is the first on the
\* backtest or follows a call that returned
RunStart ==
    /\ phase \in {"prepared", "done"}
    /\ report' = NewReport(RunCapital)
    /\ lastOp' = NoOp
    /\ returned' = IF phase = "done" THEN report ELSE returned
    /\ runI' = 0
    /\ phase' = "running"
    /\ UNCHANGED <<instanceVars, indicatorVars, storageVars, positionVars, strategyVars, cfg, stream, batch>>

\* Backtest.run: one iteration of the loop
RunStep ==
    /\ phase = "running"
    /\ runI < Length(batch)
    /\ ~RunRowThrows(batch, cfg, runI)
    /\ report' = RunRow(report, batch, cfg, runI)
    /\ lastOp' = [op |-> RunRowOp(batch, runI),
                  price |-> IF RunRowOp(batch, runI) = "markEntry"
                            THEN OnEntry(cfg, At(batch, runI))
                            ELSE OnExit(cfg, At(batch, runI)),
                  row |-> runI, before |-> report]
    /\ batch' = RunDataset(batch, cfg, runI)
    /\ runI' = runI + 1
    /\ UNCHANGED <<instanceVars, indicatorVars, storageVars, positionVars, strategyVars, cfg, stream, phase, returned>>

\* Backtest.run: getEntryPrice throws in the iteration, and run is left
\* with the ledger as it is
RunThrow ==
    /\ phase = "running"
    /\ runI < Length(batch)
    /\ RunRowThrows(batch, cfg, runI)
    /\ lastOp' = [op |-> "throw", price |-> Num(0), row |-> runI, before |-> report]
    /\ phase' = "threw"
    /\ UNCHANGED <<instanceVars, indicatorVars, storageVars, positionVars, strategyVars, cfg, stream, batch, runI, report, returned>>

\* Backtest.run: the loop is over and the report is returned
RunReturn ==
    /\ phase = "running"
    /\ runI = Length(batch)
    /\ phase' = "done"
    /\ UNCHANGED <<instanceVars, indicatorVars, storageVars, positionVars, strategyVars, ledgerVars, cfg, stream, batch, runI>>

Init ==
    /\ PositionIdle /\ StrategyIdle /\ LedgerIdle /\ StorageIdle /\ IndicatorIdle /\ InstanceIdle
    /\ cfg \in DatasetConfigs
    /\ stream = EmptyDataset
    /\ batch = EmptyDataset
    /\ phase = "new"
    /\ runI = 0

Next == Register \/ AddRow \/ NewBacktest \/ RunStart \/ RunStep \/ RunReturn

Spec == Init /\ [][Next]_vars

----------------------------------------------------------------------------
(* SpecRecords: a Backtest built on a dataset of record rows that have a    *)
(* open and no close, and run row by row                                    *)

RecordValues == {OpenValue(Num(v)) : v \in Values}

RecordInputs == UNION {[1..n -> RecordValues] : n \in 0..MaxRows}

\* new Backtest(new Dataset(rows), strategy)
RecordsNewBacktest ==
    /\ phase = "new"
    /\ \E data \in RecordInputs : batch' = Prepare(NewDataset(data), cfg)
    /\ phase' = "prepared"
    /\ UNCHANGED <<instanceVars, indicatorVars, storageVars, positionVars, strategyVars, ledgerVars, cfg, stream, runI>>

InitRecords ==
    /\ PositionIdle /\ StrategyIdle /\ LedgerIdle /\ StorageIdle /\ IndicatorIdle
    /\ InstanceIdle
    /\ cfg \in RecordConfigs
    /\ stream = EmptyDataset
    /\ batch = EmptyDataset
    /\ phase = "new"
    /\ runI = 0

NextRecords == RecordsNewBacktest \/ RunStart \/ RunStep \/ RunThrow \/ RunReturn

SpecRecords == InitRecords /\ [][NextRecords]_vars

----------------------------------------------------------------------------
(* SpecStorage: any sequence of calls on one ColumnarStorage, the cell      *)
(* writes addressing its rows as Dataset's do                               *)

\* raw values appended: numbers and an object
StoreValues == {Num(1), Num(2), ObjectValue(Num(3))}
\* the column name written, and one no call ever registers
ColumnName == "sma2"
UnknownName == "unknown"
\* the indicator value and the strategy value written to cells
CellValue == Num(7)
CellPosition == [position |-> TradePosition("hold", NoOptions)]

StoreAddValue ==
    /\ store.length < MaxStoreRows
    /\ \E v \in StoreValues :
          /\ store' = AddValue(store, v)
          /\ storeOp' = [op |-> "addValue", value |-> v, before |-> store]
    /\ UNCHANGED <<instanceVars, indicatorVars, written, positionVars, strategyVars, ledgerVars, datasetVars>>

StoreEnsureIndicatorColumn ==
    /\ store' = EnsureIndicatorColumn(store, ColumnName)
    /\ storeOp' = [op |-> "ensureIndicatorColumn", value |-> Undef, before |-> store]
    /\ UNCHANGED <<instanceVars, indicatorVars, written, positionVars, strategyVars, ledgerVars, datasetVars>>

StoreEnsureStrategyColumn ==
    /\ store' = EnsureStrategyColumn(store, StrategyName)
    /\ storeOp' = [op |-> "ensureStrategyColumn", value |-> Undef, before |-> store]
    /\ UNCHANGED <<instanceVars, indicatorVars, written, positionVars, strategyVars, ledgerVars, datasetVars>>

StoreSetIndicator ==
    /\ \E index \in (-store.length)..(store.length - 1) :
          /\ store' = StorageSetIndicator(store, index, ColumnName, CellValue)
          /\ written' = written \cup {<<"indicator", ActualIndex(store, index)>>}
    /\ storeOp' = [op |-> "setIndicator", value |-> CellValue, before |-> store]
    /\ UNCHANGED <<instanceVars, indicatorVars, positionVars, strategyVars, ledgerVars, datasetVars>>

StoreSetStrategy ==
    /\ \E index \in (-store.length)..(store.length - 1) :
          /\ store' = StorageSetStrategy(store, index, StrategyName, CellPosition)
          /\ written' = written \cup {<<"strategy", ActualIndex(store, index)>>}
    /\ storeOp' = [op |-> "setStrategy", value |-> Undef, before |-> store]
    /\ UNCHANGED <<instanceVars, indicatorVars, positionVars, strategyVars, ledgerVars, datasetVars>>

InitStorage ==
    /\ PositionIdle /\ StrategyIdle /\ LedgerIdle /\ DatasetIdle /\ IndicatorIdle /\ InstanceIdle
    /\ store = EmptyDataset
    /\ storeOp = NoStoreOp
    /\ written = {}

NextStorage ==
    \/ StoreAddValue
    \/ StoreEnsureIndicatorColumn
    \/ StoreEnsureStrategyColumn
    \/ StoreSetIndicator
    \/ StoreSetStrategy
SpecStorage == InitStorage /\ [][NextStorage]_vars

----------------------------------------------------------------------------
(* SpecDataset: any sequence of the registering calls of Dataset and of add *)
(* on one dataset                                                           *)

\* the most entries the two registration lists hold together
MaxRegistrations == 4
\* the most rows the dataset receives
MaxDatasetRows == 3

Registrations(ds) == Len(ds.indicators) + Len(ds.strategies)

\* dataset.add(value)
DatasetAdd ==
    /\ phase = "dataset"
    /\ Length(stream) < MaxDatasetRows
    /\ \E v \in Values :
          /\ ~AddThrows(stream, Num(v), cfg)
          /\ stream' = Add(stream, Num(v), cfg)
    /\ UNCHANGED <<instanceVars, indicatorVars, storageVars, positionVars, strategyVars, ledgerVars, cfg, batch, phase, runI>>

\* dataset.setIndicator({name, indicator})
DatasetSetIndicator ==
    /\ phase = "dataset"
    /\ Registrations(stream) < MaxRegistrations
    /\ stream' = SetIndicator(stream, "sma2")
    /\ UNCHANGED <<instanceVars, indicatorVars, storageVars, positionVars, strategyVars, ledgerVars, cfg, batch, phase, runI>>

\* dataset.setStrategy({name, strategy})
DatasetSetStrategy ==
    /\ phase = "dataset"
    /\ Registrations(stream) < MaxRegistrations
    /\ stream' = SetStrategy(stream, StrategyName)
    /\ UNCHANGED <<instanceVars, indicatorVars, storageVars, positionVars, strategyVars, ledgerVars, cfg, batch, phase, runI>>

\* dataset.apply(indicator), which is also what a beforeCalculate hook calls
DatasetApply ==
    /\ phase = "dataset"
    /\ Registrations(stream) < MaxRegistrations
    /\ stream' = ApplyIndicators(stream, <<"sma2">>, 1, cfg)
    /\ UNCHANGED <<instanceVars, indicatorVars, storageVars, positionVars, strategyVars, ledgerVars, cfg, batch, phase, runI>>

\* dataset.prepare(strategy), which is all that new Backtest(dataset,
\* strategy) does to the dataset
DatasetPrepare ==
    /\ phase = "dataset"
    /\ Registrations(stream) + 1 < MaxRegistrations
    /\ stream' = Prepare(stream, cfg)
    /\ UNCHANGED <<instanceVars, indicatorVars, storageVars, positionVars, strategyVars, ledgerVars, cfg, batch, phase, runI>>

InitDataset ==
    /\ PositionIdle /\ StrategyIdle /\ LedgerIdle /\ StorageIdle /\ IndicatorIdle /\ InstanceIdle
    /\ cfg \in {c \in DatasetConfigs : c.kind = "sma2" /\ c.runner = "value"}
    /\ stream = EmptyDataset
    /\ batch = EmptyDataset
    /\ phase = "dataset"
    /\ runI = 0

NextDataset ==
    \/ DatasetAdd
    \/ DatasetSetIndicator
    \/ DatasetSetStrategy
    \/ DatasetApply
    \/ DatasetPrepare

SpecDataset == InitDataset /\ [][NextDataset]_vars

----------------------------------------------------------------------------
(* SpecThrowing: rows added to a dataset whose strategy has an entryWhen    *)
(* that throws on some rows; the caller catches the error and goes on       *)

\* a strategy that enters at 2, exits at 1, and throws from entryWhen at 3
ThrowingConfig ==
    [kind |-> "throws", stopLoss |-> FALSE, takeProfit |-> FALSE,
     hasLong |-> TRUE, hasShort |-> FALSE, runner |-> "value",
     entryPriceField |-> "undefined"]

\* dataset.add(value) raises: the statements up to strategy.apply have run
DatasetAddThrow ==
    /\ phase = "dataset"
    /\ Length(stream) < MaxDatasetRows
    /\ \E v \in Values :
          /\ AddThrows(stream, Num(v), cfg)
          /\ stream' = Add(stream, Num(v), cfg)
    /\ UNCHANGED <<instanceVars, indicatorVars, storageVars, positionVars, strategyVars, ledgerVars, cfg, batch, phase, runI>>

InitThrowing ==
    /\ PositionIdle /\ StrategyIdle /\ LedgerIdle /\ StorageIdle /\ IndicatorIdle
    /\ InstanceIdle
    /\ cfg = ThrowingConfig
    /\ stream = EmptyDataset
    /\ batch = EmptyDataset
    /\ phase = "dataset"
    /\ runI = 0

NextThrowing ==
    \/ DatasetAdd
    \/ DatasetAddThrow
    \/ DatasetSetIndicator
    \/ DatasetSetStrategy

SpecThrowing == InitThrowing /\ [][NextThrowing]_vars

----------------------------------------------------------------------------
(* SpecIndicators: one indicator calculated on a drawn dataset *)

\* the rows: numbers, records whose low <= close <= high, and a record that
\* has a close only
BarFields == {t \in (1..2) \X (1..2) \X (1..2) : t[2] <= t[3] /\ t[3] <= t[1]}
OscillatorValues ==
    {Num(1), Num(3), ObjectValue(Num(2))}
        \cup {Bar(Num(t[1]), Num(t[2]), Num(t[3])) : t \in BarFields}

OscillatorInputs == UNION {[1..n -> OscillatorValues] : n \in 0..MaxBars}

\* new Stochastic(name, params).calculate(dataset), type 'k'
StochasticCalculate ==
    /\ indOut.calculated \cap {"stochastic", "rsi"} = {}
    /\ indOut' = [indOut EXCEPT !.calculated = @ \cup {"stochastic"},
                                !.stochastic = calculateStochasticK(indDs, indParams)]
    /\ UNCHANGED <<instanceVars, indDs, indParams, positionVars, strategyVars, ledgerVars,
                   datasetVars, storageVars>>

\* new WilliamsR(name, params).calculate(dataset)
WilliamsRCalculate ==
    /\ indOut.calculated \cap {"williamsR", "rsi"} = {}
    /\ indOut' = [indOut EXCEPT !.calculated = @ \cup {"williamsR"},
                                !.williamsR = WilliamsR(indDs, indParams)]
    /\ UNCHANGED <<instanceVars, indDs, indParams, positionVars, strategyVars, ledgerVars,
                   datasetVars, storageVars>>

\* new CCI(name, params).calculate(dataset)
CCICalculate ==
    /\ indOut.calculated \cap {"cci", "rsi"} = {}
    /\ indOut' = [indOut EXCEPT !.calculated = @ \cup {"cci"},
                                !.cci = CCI(indDs, indParams)]
    /\ UNCHANGED <<instanceVars, indDs, indParams, positionVars, strategyVars, ledgerVars,
                   datasetVars, storageVars>>

\* new RSI(name, {period, attribute: 'close'}).calculate(dataset), which
\* registers and spreads its two averages on the dataset first
RSICalculate ==
    /\ indOut.calculated = {}
    /\ \E r \in {RSI(indDs, indParams.period, cfg)} :
          /\ indOut' = [indOut EXCEPT !.calculated = {"rsi"}, !.rsi = r.value]
          /\ indDs' = r.dataset
    /\ UNCHANGED <<instanceVars, indParams, positionVars, strategyVars, ledgerVars,
                   datasetVars, storageVars>>

InitIndicators ==
    /\ PositionIdle /\ StrategyIdle /\ LedgerIdle /\ DatasetIdle /\ StorageIdle
    /\ InstanceIdle
    /\ \E data \in OscillatorInputs : indDs = NewDataset(data)
    /\ \E named \in BOOLEAN : indParams = OscillatorParams(named)
    /\ indOut = NoValue

NextIndicators ==
    \/ StochasticCalculate
    \/ WilliamsRCalculate
    \/ CCICalculate
    \/ RSICalculate

SpecIndicators == InitIndicators /\ [][NextIndicators]_vars

----------------------------------------------------------------------------
(* SpecInstances: add, new Backtest and run calls on two datasets, in any   *)
(* interleaving                                                             *)

\* the most rows each dataset receives
MaxInstanceRows == 2
\* the raw values of their rows
InstanceValues == {1, 3}

\* dataset.add(value) on an instance
CallAdd(x, c, call) ==
    [x EXCEPT !.dataset = Add(@, Num(call.value), c), !.calls = Append(@, call)]

\* new Backtest(dataset, strategy) on an instance
CallBacktest(x, c, call) ==
    [x EXCEPT !.dataset = Prepare(@, c), !.built = TRUE,
              !.calls = Append(@, call)]

\* backtest.run(runner) on an instance
CallRun(x, c, call) ==
    [x EXCEPT !.report = RunTo(x.dataset, c, Length(x.dataset)),
              !.calls = Append(@, call)]

\* one call on an instance
Call(x, c, call) ==
    IF call.op = "add" THEN CallAdd(x, c, call)
    ELSE IF call.op = "backtest" THEN CallBacktest(x, c, call)
    ELSE CallRun(x, c, call)

\* instance i is left as x, with one storage shared by all datasets
InstanceCall_SharedStorage(instances, i, x) ==
    [j \in InstanceIds |->
        IF j = i THEN x ELSE [instances[j] EXCEPT !.dataset = x.dataset]]

\* instance i is left as x by a call: every Dataset has its own storage and
\* registration lists, every run its own report
InstanceCall(instances, i, x) == [instances EXCEPT ![i] = x]

InstanceAdd ==
    \E i \in InstanceIds, v \in InstanceValues :
        /\ Length(inst[i].dataset) < MaxInstanceRows
        /\ \E x \in {CallAdd(inst[i], InstanceConfig(i), [op |-> "add", value |-> v])} :
              inst' = InstanceCall(inst, i, x)
        /\ UNCHANGED <<indicatorVars, storageVars, positionVars, strategyVars,
                       ledgerVars, datasetVars>>

InstanceBacktest ==
    \E i \in InstanceIds :
        /\ ~inst[i].built
        /\ \E x \in {CallBacktest(inst[i], InstanceConfig(i),
                                  [op |-> "backtest", value |-> 0])} :
              inst' = InstanceCall(inst, i, x)
        /\ UNCHANGED <<indicatorVars, storageVars, positionVars, strategyVars,
                       ledgerVars, datasetVars>>

InstanceRun ==
    \E i \in InstanceIds :
        /\ inst[i].built
        /\ \A k \in 1..Len(inst[i].calls) : inst[i].calls[k].op # "run"
        /\ \E x \in {CallRun(inst[i], InstanceConfig(i), [op |-> "run", value |-> 0])} :
              inst' = InstanceCall(inst, i, x)
        /\ UNCHANGED <<indicatorVars, storageVars, positionVars, strategyVars,
                       ledgerVars, datasetVars>>

InitInstances ==
    /\ PositionIdle /\ StrategyIdle /\ LedgerIdle /\ DatasetIdle /\ StorageIdle
    /\ IndicatorIdle /\ InstanceIdle

NextInstances == InstanceAdd \/ InstanceBacktest \/ InstanceRun

SpecInstances == InitInstances /\ [][NextInstances]_vars

----------------------------------------------------------------------------
(* Properties *)

\* number of records of the given type in a trade log
RECURSIVE CountTrades(_, _)
CountTrades(trades, type) ==
    IF trades = <<>> THEN 0
    ELSE (IF Head(trades).type = type THEN 1 ELSE 0) + CountTrades(Tail(trades), type)

\* number of rows of a prepared dataset whose stored position has the kind
RowsOfKind(ds, kind) ==
    Cardinality({i \in 0..(Length(ds) - 1) : QuotePosition(At(ds, i)).value = kind})

Prepared == phase \in {"prepared", "running", "done"}

\* C1: the indicator columns and the position column a dataset gets from
\* registering the strategy while empty and then one add per row are, row for
\* row, those one prepare call gives a dataset built from the same rows.
C1_StreamEqualsBatch ==
    Prepared =>
        /\ Rows(stream) = Rows(batch)
        /\ stream.cols = batch.cols
        /\ stream.strategyCols = batch.strategyCols

\* C2: TradePosition.update gives, for each of the 16 pairs of current kind
\* and decision kind, the kind of the table: from idle or exit, entry on
\* decision entry and idle otherwise; from entry or hold, exit on decision
\* exit and hold otherwise.
C2_TransitionTable ==
    posCalls = 1 =>
        /\ posOut.value \in Kinds
        /\ posOut.value =
              IF posOld.value \in {"idle", "exit"}
              THEN (IF posNew.value = "entry" THEN "entry" ELSE "idle")
              ELSE (IF posNew.value = "exit" THEN "exit" ELSE "hold")

C2_Witness ==
    posCalls = 1 /\ posOld.value = "hold" /\ posNew.value = "exit"
                 /\ posOut.value = "exit"

\* C3: Strategy.apply decides in strict priority.  With the previous kind
\* entry or hold: a true stop-loss predicate gives exit with exitReason
\* stop-loss whatever the others return; else a true take-profit predicate
\* gives exit with exitReason take-profit; else a true exit predicate gives
\* exit with exitReason strategy.  Otherwise a true entry predicate gives
\* the decision entry and else the decision is idle, the returned kind being
\* the table's for that decision.  With the previous kind idle or exit no
\* predicate produces an exit.  (The exit and entry predicates are those of
\* the pair the position's short flag selects, when the strategy has it.)
C3_Priority ==
    stCalls = 1 =>
        LET open == stPrev.value \in {"entry", "hold"}
            short == "short" \in DOMAIN stPrev.options /\ stPrev.options["short"]
            sl == stCfg.stopLoss /\ Bit(stQuote, 4)
            tp == stCfg.takeProfit /\ Bit(stQuote, 8)
            hasPair == IF short THEN stCfg.hasShort ELSE stCfg.hasLong
            ex == IF short THEN Bit(stQuote, 32) ELSE Bit(stQuote, 2)
            en == IF short THEN Bit(stQuote, 16) ELSE Bit(stQuote, 1)
            reason == Opt(stOut, "exitReason")
        IN  /\ (open /\ sl) => (stOut.value = "exit" /\ reason = "stop-loss")
            /\ (open /\ ~sl /\ tp) =>
                   (stOut.value = "exit" /\ reason = "take-profit")
            /\ (open /\ ~sl /\ ~tp /\ hasPair /\ ex) =>
                   (stOut.value = "exit" /\ reason = "strategy")
            /\ (open /\ ~sl /\ ~tp /\ hasPair /\ ~ex) =>
                   (stOut.value = "hold" /\ reason = "undefined")
            /\ (~open /\ hasPair /\ en) =>
                   (stOut.value = "entry" /\ reason = "undefined")
            /\ (~open /\ hasPair /\ ~en) =>
                   (stOut.value = "idle" /\ reason = "undefined")
            /\ ~open => stOut.value # "exit"

\* a stop-loss exit taken although take-profit and the exit predicate are true
C3_Witness ==
    /\ stCalls = 1 /\ stPrev.value = "hold"
    /\ stCfg.stopLoss /\ stCfg.takeProfit /\ stCfg.hasLong
    /\ Bit(stQuote, 4) /\ Bit(stQuote, 8) /\ Bit(stQuote, 2)
    /\ stOut.value = "exit" /\ Opt(stOut, "exitReason") = "stop-loss"

\* C4: when the position at the last row is entry or hold, Backtest.run
\* records exactly one exit for that row, at the price onExit returns for the
\* last quote; once run has returned sharesOwned is 0 and numberOfTrades was
\* incremented exactly once for that open position.
C4_ForcedExitAtEnd ==
    (phase = "done" /\ Length(batch) > 0 /\ IsOpen(QuotePosition(At(batch, -1)))) =>
        LET n == Len(report.trades)
        IN  /\ n >= 1
            /\ report.trades[n].type = "exit"
            /\ report.trades[n].quote = At(batch, -1)
            /\ report.trades[n].tradedValue = OnExit(cfg, At(batch, -1))
            /\ lastOp.row = Length(batch) - 1
            /\ Len(lastOp.before.trades) = n - 1
            /\ report.sharesOwned = Num(0)
            /\ report.numberOfTrades = lastOp.before.numberOfTrades + 1
            /\ report.numberOfTrades = RowsOfKind(batch, "exit") + 1

\* a run that ended on a hold row after at least one completed trade
C4_Witness ==
    /\ phase = "done" /\ Length(batch) > 0
    /\ QuotePosition(At(batch, -1)).value = "hold"
    /\ report.numberOfTrades = 2

\* C5: after every markExit at price q, finalCapital is the sharesOwned held
\* just before the exit times q, and sharesOwned is 0.
C5_ExitConservation ==
    lastOp.op = "markExit" =>
        /\ report.finalCapital = RMul(lastOp.before.sharesOwned, lastOp.price)
        /\ report.sharesOwned = Num(0)

\* an exit that sold a fractional holding
C5_Witness ==
    /\ lastOp.op = "markExit"
    /\ lastOp.before.sharesOwned[2] > 1
    /\ RGt(report.finalCapital, Num(0))

\* C6: markEntry at price p turns the whole available capital into shares:
\* sharesOwned is capital / p, finalCapital is 0, and one entry record with
\* that share count is appended to the trade log.
C6_EntryUsesAllCapital ==
    lastOp.op = "markEntry" =>
        LET n == Len(report.trades)
            shares == RDiv(lastOp.before.finalCapital, lastOp.price)
        IN  /\ report.sharesOwned = shares
            /\ report.finalCapital = Num(0)
            /\ n = Len(lastOp.before.trades) + 1
            /\ SubSeq(report.trades, 1, n - 1) = lastOp.before.trades
            /\ report.trades[n].type = "entry"
            /\ report.trades[n].shares = shares
            /\ report.trades[n].tradedValue = lastOp.price

\* an entry made with the proceeds of an earlier trade
C6_Witness ==
    /\ lastOp.op = "markEntry"
    /\ Len(report.trades) = 3
    /\ RGt(report.sharesOwned, Num(0))
    /\ lastOp.before.finalCapital # lastOp.before.initialCapital

\* the last record of the log is an exit whose entry is the record before
\* it, and that entry did not follow another entry
MatchedExit ==
    LET n == Len(report.trades)
    IN  /\ lastOp.op = "markExit"
        /\ n >= 2
        /\ report.trades[n - 1].type = "entry"
        /\ (n >= 3 => report.trades[n - 2].type = "exit")

\* C7: a markExit that closes the entry recorded just before it counts the
\* trade as a win iff the proceeds (the shares held times the exit price)
\* exceed the capital held before that entry (the shares bought times their
\* price) and adds the difference to profit; otherwise it counts a loss and
\* adds the capital minus the proceeds to loss; after every exit winningRate
\* is numberOfWinningTrades / (numberOfWinningTrades + numberOfLosingTrades).
C7_WinLoss ==
    /\ lastOp.op = "markExit" =>
          report.winningRate =
              RDiv(Num(report.numberOfWinningTrades),
                   Num(report.numberOfWinningTrades + report.numberOfLosingTrades))
    /\ MatchedExit =>
          LET n == Len(report.trades)
              entry == report.trades[n - 1]
              capital == RMul(entry.shares, entry.tradedValue)
              proceeds == report.trades[n].currentCapital
              b == lastOp.before
              won == /\ report.numberOfWinningTrades = b.numberOfWinningTrades + 1
                     /\ report.numberOfLosingTrades = b.numberOfLosingTrades
                     /\ report.profit = RAdd(b.profit, RSub(proceeds, capital))
                     /\ report.loss = b.loss
              lost == /\ report.numberOfLosingTrades = b.numberOfLosingTrades + 1
                      /\ report.numberOfWinningTrades = b.numberOfWinningTrades
                      /\ report.loss = RAdd(b.loss, RSub(capital, proceeds))
                      /\ report.profit = b.profit
          IN  /\ capital = b.currentCapital
              /\ proceeds = RMul(b.sharesOwned, lastOp.price)
              /\ IF RGt(proceeds, capital) THEN won ELSE lost

\* a winning trade after a losing one
C7_Witness ==
    /\ MatchedExit
    /\ report.numberOfWinningTrades = 1 /\ report.numberOfLosingTrades = 1
    /\ lastOp.before.numberOfWinningTrades = 0
    /\ report.winningRate = Rat(1, 2)

\* C8: numberOfTrades goes up by exactly one on every exit and is left alone
\* by an entry: it is the number of exit records in the trade log.
C8_TradesCountExits ==
    /\ report.numberOfTrades = CountTrades(report.trades, "exit")
    /\ lastOp.op = "markExit" =>
          report.numberOfTrades = lastOp.before.numberOfTrades + 1
    /\ lastOp.op = "markEntry" =>
          report.numberOfTrades = lastOp.before.numberOfTrades

\* a log with entries and exits in it
C8_Witness ==
    /\ lastOp.op = "markEntry"
    /\ CountTrades(report.trades, "entry") = 2
    /\ report.numberOfTrades = 2

\* returns and returnsPercentage agree with the capital
TotalsAgree ==
    /\ report.returns = RSub(report.finalCapital, report.initialCapital)
    /\ report.returnsPercentage =
          RMul(RDiv(report.returns, report.initialCapital), Num(100))

\* C9 as claimed: in every ledger state reachable by markEntry and markExit
\* calls, returns is finalCapital minus initialCapital and returnsPercentage
\* is returns / initialCapital x 100.
C9_TotalsAlways == TotalsAgree

\* C9 as amended: the same in every ledger state reached by construction or
\* by a markExit call; markEntry sets finalCapital to 0 and leaves returns
\* and returnsPercentage as the last exit computed them.
C9_TotalsAfterExit == lastOp.op # "markEntry" => TotalsAgree

\* an exit that left a capital different from the initial one
C9_Witness ==
    /\ lastOp.op = "markExit"
    /\ ~IsNaN(report.returns) /\ report.returns # Num(0)
    /\ report.returnsPercentage[2] > 1

\* C10: during a run with positive initial capital and positive prices,
\* sharesOwned > 0 exactly when an entry has been recorded and its matching
\* exit has not yet been recorded.
C10_SharesIffOpen ==
    phase \in {"running", "done"} =>
        LET n == Len(report.trades)
        IN  RGt(report.sharesOwned, Num(0)) <=>
                (n >= 1 /\ report.trades[n].type = "entry")

\* shares held in the middle of a run, after an earlier trade was closed
C10_Witness ==
    /\ phase = "running"
    /\ RGt(report.sharesOwned, Num(0))
    /\ report.numberOfTrades = 1

\* the strategy of the run without its stop-loss predicate
WithoutStopLoss(c) == [c EXCEPT !.stopLoss = FALSE]

\* the last iteration of the run closed an open position on a row where the
\* stop-loss predicate and the exit predicate are both true
BothExitsTrue ==
    /\ phase \in {"running", "done"}
    /\ lastOp.op = "markExit"
    /\ lastOp.row >= 1
    /\ IsOpen(QuotePosition(At(batch, lastOp.row - 1)))
    /\ StopLossWhen(cfg, At(batch, lastOp.row),
                    QuotePosition(At(batch, lastOp.row - 1)))
    /\ ExitWhen(cfg, At(batch, lastOp.row))

\* C11: when at a row with an open position the stop-loss predicate and the
\* strategy's exit predicate are both true, the run of the strategy with the
\* stop-loss predicate records the exit with exitReason stop-loss and
\* increments only stopLossExits; the run of the same strategy without the
\* stop-loss predicate over the same rows, when its position is open at that
\* row too and no take-profit fires, records it with exitReason strategy and
\* increments only strategyExits.
C11_StopLossBeatsExit ==
    (BothExitsTrue /\ cfg.stopLoss) =>
        LET i == lastOp.row
            n == Len(report.trades)
            b == lastOp.before
            c2 == WithoutStopLoss(cfg)
            batch2 == Prepare(NewDataset(Rows(batch)), c2)
            before2 == RunTo(batch2, c2, i)
            report2 == RunRow(before2, batch2, c2, i)
            n2 == Len(report2.trades)
            prev2 == QuotePosition(At(batch2, i - 1))
        IN  /\ report.trades[n].type = "exit"
            /\ report.trades[n].exitReason = "stop-loss"
            /\ report.stopLossExits = b.stopLossExits + 1
            /\ report.strategyExits = b.strategyExits
            /\ report.takeProfitExits = b.takeProfitExits
            /\ (IsOpen(prev2) /\ RiskExit(c2, At(batch2, i), prev2) = "none") =>
                  /\ n2 = Len(before2.trades) + 1
                  /\ report2.trades[n2].type = "exit"
                  /\ report2.trades[n2].exitReason = "strategy"
                  /\ report2.strategyExits = before2.strategyExits + 1
                  /\ report2.stopLossExits = before2.stopLossExits
                  /\ report2.takeProfitExits = before2.takeProfitExits

\* a stop-loss exit on such a row, whose twin run is open there as well
C11_Witness ==
    /\ BothExitsTrue /\ cfg.stopLoss
    /\ report.stopLossExits = 1
    /\ IsOpen(QuotePosition(At(Prepare(NewDataset(Rows(batch)),
                                       WithoutStopLoss(cfg)),
                               lastOp.row - 1)))

\* C12: the position TradePosition.update returns carries every key of the
\* old and of the new metadata and no other, with the new value wherever
\* both define the key and the old value for keys only the old one defines
\* (and the new value for keys only the new one defines); the call leaves
\* both arguments as they were.
C12_MetadataMerge ==
    [][posCalls' = 1 =>
          /\ posOld' = posOld
          /\ posNew' = posNew
          /\ DOMAIN posOut'.options =
                (DOMAIN posOld.options) \cup (DOMAIN posNew.options)
          /\ \A k \in DOMAIN posOut'.options :
                posOut'.options[k] =
                    IF k \in DOMAIN posNew.options THEN posNew.options[k]
                    ELSE posOld.options[k]]_vars

\* a merge where one key is overridden and another is kept from the old
C12_Witness ==
    /\ posCalls = 1
    /\ \E k \in (DOMAIN posOld.options) \cap (DOMAIN posNew.options) :
          /\ posOld.options[k] # posNew.options[k]
          /\ posOut.options[k] = posNew.options[k]
    /\ \E k \in (DOMAIN posOld.options) \ (DOMAIN posNew.options) :
          posOut.options[k] = posOld.options[k]

\* the strategy was given only the short predicate pair
ShortOnly(c) == c.hasShort /\ ~c.hasLong

\* C13: for a strategy configured with only the short predicate pair,
\* Strategy.apply from the initial idle position decides entry by
\* entryShortWhen, the position it opens carries short = TRUE in its
\* metadata, and exits of an open short position are decided by
\* exitShortWhen.
C13_ShortOnlyStrategy ==
    (stCalls = 1 /\ ShortOnly(stCfg)) =>
        /\ stPrev = TradePosition("idle", NoOptions) =>
              /\ stOut # Threw
              /\ stOut.value = IF Bit(stQuote, 16) THEN "entry" ELSE "idle"
              /\ stOut.value = "entry" => isShortPosition(stOut)
        /\ (IsOpen(stPrev) /\ isShortPosition(stPrev)
               /\ RiskExit(stCfg, stQuote, stPrev) = "none") =>
              (stOut.value = "exit" <=> Bit(stQuote, 32))

\* C14: for every quote and previous position, the position Strategy.apply
\* returns (kind and metadata) is the one it returns with no onTrigger
\* observer configured, whichever observer is configured and whatever that
\* observer does with the quote it is handed.
C14_ObserverIndependence ==
    stCalls = 1 => stOut = Apply(stCfg, stQuote, stPrev)

\* a call whose observer was invoked and overwrote the quote
C14_Witness ==
    /\ stCalls = 1 /\ stObs = "mutate"
    /\ Len(stSeen.calls) = 1
    /\ stSeen.quote # stQuote
    /\ stOut.value = "entry"

\* C15: in a backtest the entryPrice determined at an entry row is carried
\* in the stored position of every following hold row and of the matching
\* exit row (the positions handed to stopLossWhen / takeProfitWhen while the
\* position is open), and the exit trade is logged with an exitContext whose
\* entryPrice equals it.
C15_EntryPriceCarried ==
    /\ phase \in {"running", "done"} =>
          \A k \in 2..Len(report.trades) :
              (report.trades[k].type = "exit"
                  /\ report.trades[k - 1].type = "entry") =>
                  /\ report.trades[k].exitContext # <<>>
                  /\ report.trades[k].exitContext.entryPrice =
                        GetEntryPrice(report.trades[k - 1].quote, cfg)
    /\ phase = "done" =>
          \A i \in 1..(Length(batch) - 1) :
              QuotePosition(At(batch, i)).value \in {"hold", "exit"} =>
                  "entryPrice" \in DOMAIN QuotePosition(At(batch, i)).options

\* the names read in the storage claims: the column written and one never
\* registered
ReadNames == {ColumnName, UnknownName, StrategyName}

\* C16: ColumnarStorage.addValue(v) increases length by exactly 1, makes v
\* readable at index length - 1 and at index -1, and leaves every earlier
\* raw value, indicator cell and position cell as it was, also when the
\* append doubles the capacity.
C16_AppendPreserves ==
    storeOp.op = "addValue" =>
        LET b == storeOp.before
        IN  /\ store.length = b.length + 1
            /\ GetValue(store, store.length - 1) = storeOp.value
            /\ GetValue(store, -1) = storeOp.value
            /\ \A i \in 0..(b.length - 1), n \in ReadNames :
                  /\ GetValue(store, i) = GetValue(b, i)
                  /\ StorageGetIndicator(store, i, n) = StorageGetIndicator(b, i, n)
                  /\ StorageGetStrategy(store, i, n) = StorageGetStrategy(b, i, n)

\* an append that doubled the capacity of a storage holding set cells
C16_Witness ==
    /\ storeOp.op = "addValue"
    /\ storeOp.before.length = storeOp.before.capacity
    /\ store.capacity = 2 * storeOp.before.capacity
    /\ <<"indicator", 0>> \in written
    /\ <<"strategy", 1>> \in written
    /\ ~store.isNumeric

\* C17: for every row index in [0, length) and every column name, an
\* indicator cell that has not been set reads NaN (also in a row appended
\* after the column was created, in cells created by growth and under a name
\* never registered), and a position cell that has not been set reads
\* undefined.
C17_UnsetCells ==
    \A i \in 0..(store.length - 1), n \in ReadNames :
        /\ (n # ColumnName \/ <<"indicator", i>> \notin written) =>
              StorageGetIndicator(store, i, n) = NaN
        /\ (n # StrategyName \/ <<"strategy", i>> \notin written) =>
              StorageGetStrategy(store, i, n) = NoStrategy

\* a grown storage with a registered column, a set cell and an unset cell in
\* a row appended after the column was created
C17_Witness ==
    /\ store.capacity > InitialCapacity
    /\ ColumnName \in DOMAIN store.cols
    /\ <<"indicator", 0>> \in written
    /\ <<"indicator", store.length - 1>> \notin written
    /\ StorageGetIndicator(store, 0, ColumnName) = CellValue

\* indices read outside the rows: a window around [-length, length) that
\* reaches beyond the capacity
OutOfRange(ds) ==
    {i \in (-(ds.capacity + 2))..(ds.capacity + 2) : i < -ds.length \/ i >= ds.length}

\* C18: reading at an index outside [-length, length) returns a no-value
\* sentinel, never a number that could be taken for stored data: Dataset.at
\* returns undefined, raw-value reads (getValue, valueAt) and position reads
\* return undefined, and indicator reads return NaN.
C18_OutOfRangeReads ==
    \A i \in OutOfRange(store) :
        /\ At(store, i) = NoQuote
        /\ GetValue(store, i) = Undef
        /\ ValueAt(store, i) = Undef
        /\ \A n \in ReadNames :
              /\ StorageGetStrategy(store, i, n) = NoStrategy
              /\ StorageGetIndicator(store, i, n) = NaN

\* the rows of ds that hold no position of the strategy registered as name
RowsWithoutPosition(ds, name) ==
    {i \in 0..(Length(ds) - 1) : StorageGetStrategy(ds, i, name) = NoStrategy}

\* C19: in every state of a dataset every registered strategy's position
\* column has as many cells as there are raw rows, a stored position for
\* every row, and every registered indicator column covers exactly the rows.
C19_ColumnsCoverRows ==
    /\ \A k \in 1..Len(stream.strategies) :
          LET name == stream.strategies[k]
          IN  /\ name \in DOMAIN stream.strategyCols
              /\ DOMAIN stream.strategyCols[name] = 0..(Length(stream) - 1)
              /\ RowsWithoutPosition(stream, name) = {}
    /\ \A k \in 1..Len(stream.indicators) :
          stream.indicators[k] \in DOMAIN stream.cols

\* no name occurs twice in a registration list
NoDuplicates(names) ==
    \A i, j \in 1..Len(names) : names[i] = names[j] => i = j

\* C20: after any sequence of setIndicator, setStrategy, apply, prepare and
\* Backtest constructions on one dataset, dataset.indicators and
\* dataset.strategies hold no two entries of one name, and the store holds
\* one column for each registered name.
C20_RegisteredOnce ==
    /\ NoDuplicates(stream.indicators)
    /\ NoDuplicates(stream.strategies)
    /\ DOMAIN stream.cols = {stream.indicators[k] : k \in 1..Len(stream.indicators)}
    /\ DOMAIN stream.strategyCols =
          {stream.strategies[k] : k \in 1..Len(stream.strategies)}

\* a new dataset of rows 0..i of ds
Prefix(ds, i) == NewDataset(SubSeq(Rows(ds), 1, i + 1))

\* C21: after spread (here the spreads of the strategy's indicators that
\* prepare runs) every row i holds, for each indicator, the indicator's full
\* computation on a dataset of rows 0..i alone, and the length and the raw
\* values of the dataset are those it had before.
C21_SpreadPrefix ==
    Prepared =>
        /\ Length(batch) = Length(stream)
        /\ Rows(batch) = Rows(stream)
        /\ \A k \in 1..Len(StrategyIndicators(cfg)), i \in 0..(Length(batch) - 1) :
              StorageGetIndicator(batch, i, StrategyIndicators(cfg)[k])
                  = ToFloat(Calculate(StrategyIndicators(cfg)[k], Prefix(stream, i)))

\* a spread over rows whose later values differ from the earlier ones, with
\* a defined moving average in a row that is not the last
C21_Witness ==
    /\ Prepared
    /\ Length(batch) = MaxRows
    /\ \E k \in 1..Len(StrategyIndicators(cfg)) :
          LET name == StrategyIndicators(cfg)[k]
          IN  /\ IsNum(StorageGetIndicator(batch, MaxRows - 2, name))
              /\ StorageGetIndicator(batch, MaxRows - 2, name)
                     # StorageGetIndicator(batch, MaxRows - 1, name)

\* the rows of the window the oscillators of SpecIndicators look at
Window == (Length(indDs) - indParams.period)..(Length(indDs) - 1)

\* the numbers read as the named field in the rows of the window
WindowNumbers(attribute) ==
    {x \in {ToNumber(ValueAtAttribute(indDs, i, attribute)) : i \in Window} : IsNum(x)}

\* the highest high of the window equals its lowest low
ZeroRange ==
    /\ Length(indDs) >= indParams.period
    /\ \E h \in WindowNumbers(indParams.high), l \in WindowNumbers(indParams.low) :
          /\ \A x \in WindowNumbers(indParams.high) : RLe(x, h)
          /\ \A y \in WindowNumbers(indParams.low) : RLe(l, y)
          /\ h = l

\* every row of the window has the same typical price
ZeroMeanDeviation ==
    /\ Length(indDs) >= indParams.period
    /\ \E i \in Window : \A j \in Window :
          /\ IsNum(calculateTypicalPrice(indDs, i, indParams))
          /\ calculateTypicalPrice(indDs, j, indParams)
                 = calculateTypicalPrice(indDs, i, indParams)

\* C22: when the highest high of the window equals its lowest low,
\* Stochastic %K returns 50 and Williams %R returns -50; when the mean
\* deviation of the window is zero, CCI returns 0; never NaN or Infinity.
C22_NeutralOnZeroDivisor ==
    /\ ("stochastic" \in indOut.calculated /\ ZeroRange) => indOut.stochastic = Num(50)
    /\ ("williamsR" \in indOut.calculated /\ ZeroRange) => indOut.williamsR = Num(-50)
    /\ ("cci" \in indOut.calculated /\ ZeroMeanDeviation) => indOut.cci = Num(0)

\* the three oscillators calculated on a full window of equal record rows
\* that follows a different row
C22_Witness ==
    /\ indOut.calculated = {"stochastic", "williamsR", "cci"}
    /\ ZeroRange /\ ZeroMeanDeviation
    /\ indParams.high = "high"
    /\ Length(indDs) > indParams.period
    /\ IsObject(GetValue(indDs, -1))
    /\ GetValue(indDs, 0) # GetValue(indDs, -1)

\* C23: on a constant sequence longer than the period RSI returns 50.
C23_RsiNeutral ==
    ( /\ "rsi" \in indOut.calculated
      /\ Length(indDs) > indParams.period
      /\ \A i \in 0..(Length(indDs) - 1) :
            ValueAtAttribute(indDs, i, RsiAttribute)
                = ValueAtAttribute(indDs, 0, RsiAttribute) )
        => indOut.rsi = Num(50)

\* the instance that results from making the calls on a new instance alone
RECURSIVE Alone(_, _, _)
Alone(c, calls, n) ==
    IF n = 0 THEN NewInstance ELSE Call(Alone(c, calls, n - 1), c, calls[n])

LacksEntryPriceField ==
    cfg.entryPriceField = "undefined" /\ phase \in {"running", "threw", "done"}

\* the rows before row i whose iteration records an entry
EntryRowsBefore(i) == {j \in 0..(i - 1) : RunRowOp(batch, j) = "markEntry"}

\* C25 as stated: over record rows without the entry price field the error
\* is raised on the first row run processes, with no ledger entry before it.
C25_FailsOnFirstRow ==
    (LacksEntryPriceField /\ Length(batch) > 0) =>
        /\ phase # "done"
        /\ phase = "running" => runI = 0
        /\ phase = "threw" => (lastOp.row = 0 /\ report.trades = <<>>)

\* C25: over record rows without the entry price field, run raises the error
\* at the first row whose iteration records an entry (a row holding an entry
\* position that is not the last row), before any ledger entry is recorded;
\* the rows before it are processed without an error, and a run with no such
\* row returns its report.
C25_FailsOnFirstEntry ==
    LacksEntryPriceField =>
        /\ phase = "running" => EntryRowsBefore(runI) = {}
        /\ phase = "threw" =>
              /\ RunRowOp(batch, lastOp.row) = "markEntry"
              /\ EntryRowsBefore(lastOp.row) = {}
              /\ report.trades = <<>>
              /\ report = NewReport(RunCapital)
        /\ phase = "done" => EntryRowsBefore(Length(batch)) = {}

\* the error raised at a row that is not the first
C25_Witness ==
    /\ LacksEntryPriceField
    /\ phase = "threw"
    /\ lastOp.row > 0
    /\ lastOp.row < Length(batch) - 1

\* C26: the trade log of Backtest.run alternates entry, exit, entry, exit, ...
\* starting with an entry, also when the position is opened on the last row.
C26_TradesAlternate ==
    phase \in {"running", "done"} =>
        \A k \in 1..Len(report.trades) :
            report.trades[k].type = (IF k % 2 = 1 THEN "entry" ELSE "exit")

\* the value a prev indicator finds in the column of indicator name at row i
StoredOrNaN(ds, i, name) ==
    LET v == GetIndicator(At(ds, i), name)
    IN  IF v = Undef THEN NaN ELSE v

\* at every row i >= 1 the prev indicators hold what is stored at row i - 1
PrevColumnsAgree(ds) ==
    \A i \in 1..(Length(ds) - 1) :
        /\ GetIndicator(At(ds, i), "prevFastEMA") = StoredOrNaN(ds, i - 1, "fastEMA")
        /\ GetIndicator(At(ds, i), "prevSlowSMA") = StoredOrNaN(ds, i - 1, "slowSMA")

\* C27: after batch preparation with the golden cross strategy, at every row
\* i >= 1 prevFastEMA and prevSlowSMA equal the fastEMA and slowSMA values
\* stored at row i - 1.
C27_PrevReadsStoredColumn ==
    (Prepared /\ cfg.kind = "golden") => PrevColumnsAgree(batch)

\* C28: a Dataset.add call that a strategy predicate leaves by an exception
\* leaves the dataset as it was before the call: length, raw values,
\* indicator columns and position columns.
C28_ThrowingAddRollsBack == [][DatasetAddThrow => stream' = stream]_vars

\* C29: with an onTrigger observer configured, every Strategy.apply call that
\* returns invokes it exactly once, with the kind of the position returned
\* and the quote, whichever rule (stop-loss, take-profit, strategy exit,
\* entry or idle) made the decision.
C29_ObserverCalledOnce ==
    (stCalls = 1 /\ stObs # "none" /\ stOut # Threw) =>
        stSeen.calls = <<[positionType |-> stOut.value, quote |-> stQuote]>>

\* the kind stored for row i in the position column of strategy name
StoredKind(ds, i, name) ==
    IF StorageGetStrategy(ds, i, name) = NoStrategy THEN "none"
    ELSE StorageGetStrategy(ds, i, name).position.value

\* the column opens only from rest and closes only from an open position
ColumnFollowsTable(ds, name) ==
    /\ Length(ds) > 0 => StoredKind(ds, 0, name) \in {"idle", "entry"}
    /\ \A i \in 1..(Length(ds) - 1) :
          /\ StoredKind(ds, i, name) \in {"hold", "exit"}
                <=> StoredKind(ds, i - 1, name) \in {"entry", "hold"}
          /\ StoredKind(ds, i, name) \in {"idle", "entry"}
                <=> StoredKind(ds, i - 1, name) \in {"idle", "exit"}

\* C30: in every position column that prepare and/or add have written to,
\* row 0 is idle or entry, and for i >= 1 row i is hold or exit exactly when row i - 1
\* is entry or hold, and idle or entry exactly when row i - 1 is idle or exit.
C30_ColumnFollowsTable ==
    \A k \in 1..Len(stream.strategies) :
        LET name == stream.strategies[k]
        IN  RowsWithoutPosition(stream, name) # 0..(Length(stream) - 1) =>
                ColumnFollowsTable(stream, name)

\* the positions stored in the column of strategy name
StoredPositions(ds, name) ==
    {i \in 0..(Length(ds) - 1) : StorageGetStrategy(ds, i, name) # NoStrategy}

\* what exitReason a stored position carries says how it was closed, and
\* only an exit carries one
ReasonsFollowKind(ds, name) ==
    \A i \in StoredPositions(ds, name) :
        LET position == StorageGetStrategy(ds, i, name).position
        IN  /\ position.value = "exit" =>
                  Opt(position, "exitReason") \in {"stop-loss", "take-profit", "strategy"}
            /\ position.value # "exit" => Opt(position, "exitReason") = "undefined"
            /\ (i > 0 /\ StoredKind(ds, i - 1, name) = "exit") =>
                  Opt(position, "exitReason") = "undefined"

\* C31: in every position stored by prepare or add, exitReason is stop-loss,
\* take-profit or strategy when the kind is exit and undefined for every
\* other kind, and no exitReason survives into the row after an exit.
C31_ExitReasonFollowsKind ==
    /\ \A k \in 1..Len(stream.strategies) :
          ReasonsFollowKind(stream, stream.strategies[k])
    /\ \A k \in 1..Len(batch.strategies) :
          ReasonsFollowKind(batch, batch.strategies[k])

\* a prepared column where a stop-loss exit is followed by a row at rest
C31_Witness ==
    \E i \in 1..(Length(batch) - 1) :
        /\ StoredKind(batch, i - 1, StrategyName) = "exit"
        /\ Opt(StorageGetStrategy(batch, i - 1, StrategyName).position,
               "exitReason") = "stop-loss"
        /\ StoredKind(batch, i, StrategyName) = "idle"

\* the exits Backtest.run forces on the last row of the history
ForcedExits(ds) ==
    IF Length(ds) > 0 /\ IsOpen(QuotePosition(At(ds, Length(ds) - 1))) THEN 1 ELSE 0

\* C32: after Backtest.run, stopLossExits + takeProfitExits + strategyExits
\* plus the forced end-of-history exits equals numberOfTrades, and
\* numberOfWinningTrades + numberOfLosingTrades equals numberOfTrades.
C32_ExitCountsAddUp ==
    phase = "done" =>
        /\ report.stopLossExits + report.takeProfitExits + report.strategyExits
              + ForcedExits(batch) = report.numberOfTrades
        /\ report.numberOfWinningTrades + report.numberOfLosingTrades
              = report.numberOfTrades

\* a run that ended with a stop-loss exit and a forced exit in its ledger
C32_Witness ==
    /\ phase = "done"
    /\ report.stopLossExits >= 1
    /\ ForcedExits(batch) = 1
    /\ report.numberOfTrades >= 2

\* C33: re-applying the transition is a no-op: for every current position s
\* and decision d, update(s, update(s, d)) has the kind and the metadata of
\* update(s, d).
C33_UpdateIdempotent == [][UpdateAgain => posOut' = posOut]_vars

\* an open position with a decision the table turns into hold, updated twice
C33_Witness ==
    /\ posCalls = 2
    /\ posOld.value = "entry"
    /\ posNew.value = "idle"
    /\ posOut.value = "hold"
    /\ posOld.options # NoOptions
    /\ posNew.options # NoOptions

RECURSIVE AddRows(_, _, _)
\* dataset.add(value) for each value of data in turn
AddRows(ds, data, c) ==
    IF data = <<>> THEN ds ELSE AddRows(Add(ds, Head(data), c), Tail(data), c)

\* new Dataset(first k rows), prepare(strategy), then add of the other rows
PrepareThenAdd(data, k, c) ==
    AddRows(Prepare(NewDataset(SubSeq(data, 1, k)), c),
            SubSeq(data, k + 1, Len(data)), c)

\* two datasets hold the same indicator and position cells in every row
SameColumns(a, b, c) ==
    /\ Length(a) = Length(b)
    /\ \A i \in 0..(Length(a) - 1) :
          /\ StorageGetStrategy(a, i, StrategyName) = StorageGetStrategy(b, i, StrategyName)
          /\ \A k \in 1..Len(StrategyIndicators(c)) :
                StorageGetIndicator(a, i, StrategyIndicators(c)[k])
                    = StorageGetIndicator(b, i, StrategyIndicators(c)[k])

\* C34: for every split point k, prepare over the first k rows followed by
\* add of the remaining rows yields the indicator and position columns of one
\* prepare over all rows.
C34_SplitEqualsPrepare ==
    Prepared =>
        \A k \in 0..Length(batch) :
            SameColumns(PrepareThenAdd(Rows(batch), k, cfg), batch, cfg)

\* the indicator has an incremental function and row i - 1 holds a valid value
IncrementalApplies(ds, i, name) ==
    /\ hasIncremental(name)
    /\ i >= 1
    /\ StorageGetIndicator(ds, i - 1, name) # Undef
    /\ ~IsNaN(StorageGetIndicator(ds, i - 1, name))

\* C35: in the batch path and in the streaming path alike, the value of an
\* indicator for a row is computed by its incremental function exactly when
\* the indicator has one and the previous row holds a valid value for it.
C35_IncrementalIffAvailable ==
    /\ phase = "stream" =>
          \A k \in 1..Len(stream.indicators) :
              Length(stream) >= 1 =>
                  (AddUsesIncremental(stream, stream.indicators[k])
                      <=> IncrementalApplies(stream, Length(stream) - 1,
                                             stream.indicators[k]))
    /\ Prepared =>
          \A k \in 1..Len(batch.indicators), i \in 0..(Length(batch) - 1) :
              SpreadUsesIncremental(batch.indicators[k], Prefix(batch, i))
                  <=> IncrementalApplies(batch, i, batch.indicators[k])

\* the plain mean of the first period values of ds
MeanOfFirst(ds, period) == RDiv(SumValues(ds, 0, period), Num(period))

\* the moving averages the registered strategy computes
MovingAverages == {"sma2", "slowSMA", "fastEMA"}

\* C36: for SMA and EMA with period p, in a dataset filled by add the value
\* stored at every length greater than p, which the incremental update
\* produced from the previous row's stored value, equals the full computation
\* over the same prefix, and the value at length p is the plain mean of the
\* first p values.
C36_IncrementalEqualsFull ==
    phase = "stream" =>
        \A k \in 1..Len(stream.indicators) :
            LET name == stream.indicators[k]
                p == Period(name)
            IN  name \in MovingAverages =>
                    /\ Length(stream) >= p =>
                          StorageGetIndicator(stream, p - 1, name)
                              = MeanOfFirst(stream, p)
                    /\ \A i \in p..(Length(stream) - 1) :
                          StorageGetIndicator(stream, i, name)
                              = Calculate(name, Prefix(stream, i))

\* a streamed dataset where the EMA has taken two incremental steps and the
\* SMA one, over values that are not all equal
C36_Witness ==
    /\ phase = "stream"
    /\ cfg.kind = "golden"
    /\ Length(stream) = FastPeriod + 2
    /\ Length(stream) > SlowPeriod
    /\ AddUsesIncremental(stream, "fastEMA")
    /\ GetValue(stream, 0) # GetValue(stream, FastPeriod)
    /\ StorageGetIndicator(stream, FastPeriod + 1, "fastEMA")
          # StorageGetIndicator(stream, FastPeriod, "fastEMA")

\* C37: after every markExit, in any sequence of markEntry and markExit
\* calls, profit minus loss equals finalCapital minus initialCapital, and no
\* call makes profit or loss smaller.
C37_ProfitLossBalance ==
    /\ lastOp.op = "markExit" =>
          RSub(report.profit, report.loss)
              = RSub(report.finalCapital, report.initialCapital)
    /\ lastOp.op \in {"markEntry", "markExit"} =>
          /\ RGe(report.profit, lastOp.before.profit)
          /\ RGe(report.loss, lastOp.before.loss)

\* a ledger with a won and a lost trade, just after an exit
C37_Witness ==
    /\ lastOp.op = "markExit"
    /\ RGt(report.profit, Num(0))
    /\ RGt(report.loss, Num(0))
    /\ report.numberOfTrades >= 2

\* the fields of a report but the list of trades, whose quotes carry dates
LedgerMetrics(r) == [f \in (DOMAIN r) \ {"trades"} |-> r[f]]

====
